---- MODULE Spec2Model ----
(***************************************************************************)
(* Latency / jitter model for TSN and DetNet: the Calculator               *)
(* (jitter_delay_model/calculator.py), its statistics (helpers.py), the    *)
(* path helpers (path_helpers.py) and the parts of Topology (topology.py)  *)
(* the Calculator reads.                                                   *)
(*                                                                         *)
(* Conventions of the model                                                *)
(*  - A graph node name is a tuple: <<n>> is the forwarding node n,        *)
(*    <<n, p>> is the port "n-p".  "'-' in name" is Len(name) = 2,         *)
(*    name.split('-')[0] is name[1], name.split('-')[1] is name[2].        *)
(*  - Sequences are 1-based: the code's path index i is i + 1 here.        *)
(*  - Times are exact numbers of nanoseconds.  The code computes in        *)
(*    IEEE doubles; the inputs of the model keep every quotient the code   *)
(*    forms (transmission durations, d_interference / len) an integer, so  *)
(*    integer arithmetic is exact.  The two quotients that stay fractions  *)
(*    (multiplication factors, utilizations) are pairs [num, den].         *)
(*  - Python's None is a tagged value (PyNone), a str is PyStr(s).         *)
(***************************************************************************)
EXTENDS Integers, Sequences, FiniteSets, TLC

VARIABLES
    node_json,                      \* the node objects Topology.from_json was given
    nodes,                          \* G.nodes of forwarding nodes: name -> NodeAttrs
    ports,                          \* G.nodes of ports: <<n, p>> -> PortAttrs
    edges,                          \* G.edges between ports: <<a, b>> -> EdgeAttrs
    streams,                        \* Calculator.streams (a list)
    stream_paths,                   \* Calculator.stream_paths
    bandwidth_per_stream_and_node,  \* Calculator.bandwidth_per_stream_and_node
    stream_statistics,              \* Calculator.stream_statistics
    saved_multiplications,          \* Stream.saved_multiplications, per stream name
    delays,                         \* what calculate_delays_for_stream last returned, per stream
    utilization,                    \* what get_resource_utilization last returned
    passes,                         \* the passes run so far: every pass of the execute entry point, the bandwidth calls of the API
    pc,                             \* position of the execute entry point
    budget,                         \* bandwidth-changing calls left
    topology_info,                  \* Topology.name and Topology.description
    document,                       \* the JSON document last written by to_json or given to from_json
    exported,                       \* the documents to_json has returned so far
    raised,                         \* the exception from_json raised, if any
    earlier                         \* what an earlier Calculator on the same topology computed

vars == <<node_json, nodes, ports, edges, streams, stream_paths,
          bandwidth_per_stream_and_node, stream_statistics,
          saved_multiplications, delays, utilization, passes, pc, budget,
          topology_info, document, exported, raised, earlier>>

topology_vars == <<node_json, nodes, ports, edges, streams, stream_paths>>

json_vars == <<topology_info, document, exported, raised>>

-----------------------------------------------------------------------------
(* Bounds of the model *)

\* bandwidth-changing calls (recalculate_bandwidth, set_bandwidth) per run
MaxReinflations == 2

\* largest effective frame budget (bytes) a reinflation may reach
MaxBandwidth == 20000

(* Program constants *)
L1Overhead == 20
ExpressBlockBytes == 123
DEFAULT_PROCESSING_DELAY == 1050
DEFAULT_PROCESSING_JITTER == 50
DEFAULT_SYNC_JITTER == 30
DEFAULT_GCL_CYCLE == 1000000
DEFAULT_GCL_OPEN == 10000
DEFAULT_GCL_OFFSET == 1000
DEFAULT_LINK_SPEED == 1000
DEFAULT_MAX_FRAME_SIZE == 1522
DEFAULT_PROPAGATION_DELAY == 0
DEFAULT_TRANSMISSION_JITTER == 0
DEFAULT_GCL_ENABLED == FALSE
DEFAULT_FRAME_PREEMPTION_ENABLED == FALSE
DEFAULT_EXPRESS_PRIORITIES == {}
DEFAULT_GCL_PRIORITIES == 0..7

-----------------------------------------------------------------------------
(* Python values *)

PyNone == [none |-> TRUE, s |-> ""]
PyStr(x) == [none |-> FALSE, s |-> x]

\* str(x) of an optional string: str(None) is the string 'None'
Str(x) == IF x.none THEN "None" ELSE x.s

Min(a, b) == IF a <= b THEN a ELSE b
Max(a, b) == IF a >= b THEN a ELSE b

\* math.ceil(a / b) for b > 0 (a may be negative)
Ceil(a, b) == -((-a) \div b)

\* a / b where the quotient is an integer for every input of the model
Quot(a, b) == a \div b

RECURSIVE Sum(_)
Sum(q) == IF q = <<>> THEN 0 ELSE Head(q) + Sum(Tail(q))

RECURSIVE Gcd(_, _)
Gcd(a, b) == IF b = 0 THEN a ELSE Gcd(b, a % b)

\* a fraction num/den, den > 0, in lowest terms
Frac(n, d) == LET g == Gcd(IF n < 0 THEN -n ELSE n, d)
              IN  IF g = 0 THEN [num |-> 0, den |-> 1] ELSE [num |-> n \div g, den |-> d \div g]
FracOfInt(n) == [num |-> n, den |-> 1]
FracMul(x, y) == Frac(x.num * y.num, x.den * y.den)
FracAdd(x, y) == Frac(x.num * y.den + y.num * x.den, x.den * y.den)
FracDivInt(x, d) == Frac(x.num, x.den * d)

\* x < y for fractions >= 0, without forming the cross products
RECURSIVE FracLess(_, _)
FracLess(x, y) ==
    LET qx == x.num \div x.den
        qy == y.num \div y.den
        rx == x.num % x.den
        ry == y.num % y.den
    IN  IF qx # qy THEN qx < qy
        ELSE IF ry = 0 THEN FALSE
        ELSE IF rx = 0 THEN TRUE
        ELSE FracLess([num |-> y.den, den |-> ry], [num |-> x.den, den |-> rx])
FracMax(x, y) == IF FracLess(x, y) THEN y ELSE x

-----------------------------------------------------------------------------
(* path_helpers.py *)

\* path.index(name); a shortest path holds each name once
Index(path, name) == CHOOSE i \in 1..Len(path) : path[i] = name

\* the forwarding node a name belongs to, as a graph node name
ForwardingNodeOf(name) == <<name[1]>>

\* [found, name]: found = FALSE is the code's None
get_ancestor_forwarding_node_name(path, node_index) ==
    LET forwarding_node_index == Index(path, ForwardingNodeOf(path[node_index]))
    IN  IF forwarding_node_index < 4
        THEN [found |-> FALSE, name |-> <<>>]
        ELSE [found |-> TRUE, name |-> path[forwarding_node_index - 3]]

get_ancestor_tx_port_node_name(path, node_index) ==
    LET forwarding_node_index == Index(path, ForwardingNodeOf(path[node_index]))
    IN  IF forwarding_node_index < 3
        THEN [found |-> FALSE, name |-> <<>>]
        ELSE [found |-> TRUE, name |-> path[forwarding_node_index - 2]]

is_forwarding_node(name) == Len(name) = 1
is_port(name) == Len(name) = 2

is_rx_port(name, path) ==
    LET port_index == Index(path, name)
    IN  IF port_index = 1 THEN FALSE
        ELSE is_port(path[port_index - 1]) /\ is_port(path[port_index])

is_tx_port(name, path) ==
    LET port_index == Index(path, name)
    IN  IF port_index = Len(path) THEN FALSE
        ELSE is_port(path[port_index]) /\ is_port(path[port_index + 1])

\* "talker" in node_name, "listener" in node_name
ContainsTalker(name) == name[1] = "talker"
ContainsListener(name) == name[1] = "listener"

-----------------------------------------------------------------------------
(* JSON objects: a dict is a function from the keys it holds to their values *)

\* key in obj
Has(obj, key) == key \in DOMAIN obj

\* obj.get(key, default)
Get(obj, key, default) == IF key \in DOMAIN obj THEN obj[key] ELSE default

\* the dict with the one entry key: value if cond holds, the empty dict otherwise
Entry(cond, key, value) == IF cond THEN key :> value ELSE <<>>

\* raise TopologyParsingError(message): the message as the list of its pieces
TopologyParsingError(message) == [raised |-> TRUE, message |-> message]
NoError == [raised |-> FALSE, message |-> <<>>]

-----------------------------------------------------------------------------
(* stream.py *)

\* Stream.to_json
Stream_to_json(stream) ==
    [name |-> stream.name, cycleTime |-> stream.cycletime, offset |-> stream.offset,
     transmissionWindow |-> stream.transmission_window, frameSize |-> stream.framesize,
     sender |-> stream.sender, receiver |-> stream.receiver, priority |-> stream.priority]

\* a Stream.from_json that checks the keys but neither the nodes nor the priority
Stream_from_json_error_keys_only(stream, existing_nodes) ==
    IF ~Has(stream, "name")
    THEN TopologyParsingError(<<"Missing \"name\" key in stream">>)
    ELSE IF ~Has(stream, "cycleTime")
    THEN TopologyParsingError(<<"Missing or invalid key \"cycleTime\" in stream ", stream.name>>)
    ELSE IF ~Has(stream, "frameSize")
    THEN TopologyParsingError(<<"Missing or invalid key \"frameSize\" in stream ", stream.name>>)
    ELSE IF ~Has(stream, "sender")
    THEN TopologyParsingError(<<"Missing or invalid key \"sender\" in stream ", stream.name>>)
    ELSE IF ~Has(stream, "receiver")
    THEN TopologyParsingError(<<"Missing or invalid key \"receiver\" in stream ", stream.name>>)
    ELSE NoError

\* the exception Stream.from_json raises for the dict, NoError if it raises none;
\* the checks in the order of the code
Stream_from_json_error(stream, existing_nodes) ==
    IF ~Has(stream, "name")
    THEN TopologyParsingError(<<"Missing \"name\" key in stream">>)
    ELSE IF ~Has(stream, "cycleTime")
    THEN TopologyParsingError(<<"Missing or invalid key \"cycleTime\" in stream ", stream.name>>)
    ELSE IF ~Has(stream, "frameSize")
    THEN TopologyParsingError(<<"Missing or invalid key \"frameSize\" in stream ", stream.name>>)
    ELSE IF ~Has(stream, "sender")
    THEN TopologyParsingError(<<"Missing or invalid key \"sender\" in stream ", stream.name>>)
    ELSE IF stream.sender \notin existing_nodes
    THEN TopologyParsingError(<<"Node ", stream.sender, ", which was given as sender in stream ",
                                stream.name, ", does not exist">>)
    ELSE IF ~Has(stream, "receiver")
    THEN TopologyParsingError(<<"Missing or invalid key \"receiver\" in stream ", stream.name>>)
    ELSE IF stream.receiver \notin existing_nodes
    THEN TopologyParsingError(<<"Node ", stream.receiver, ", which was given as receiver in stream ",
                                stream.name, ", does not exist">>)
    ELSE IF Get(stream, "priority", 0) < 0 \/ Get(stream, "priority", 0) > 7
    THEN TopologyParsingError(<<"Invalid priority \"", ToString(Get(stream, "priority", 0)),
                                "\" given in stream ", stream.name>>)
    ELSE NoError

\* a Stream.from_json that forgets the transmission window
Stream_from_json_without_window(stream) ==
    [name |-> stream.name, cycletime |-> stream.cycleTime, offset |-> Get(stream, "offset", 0),
     transmission_window |-> 0, framesize |-> stream.frameSize,
     sender |-> stream.sender, receiver |-> stream.receiver, priority |-> Get(stream, "priority", 0)]

\* the Stream that Stream.from_json returns when it raises nothing
Stream_from_json_value(stream) ==
    [name |-> stream.name, cycletime |-> stream.cycleTime, offset |-> Get(stream, "offset", 0),
     transmission_window |-> Get(stream, "transmissionWindow", 0), framesize |-> stream.frameSize,
     sender |-> stream.sender, receiver |-> stream.receiver, priority |-> Get(stream, "priority", 0)]

\* Stream.from_json: [error, value]; value is meaningful only without an error
Stream_from_json(stream, existing_nodes) ==
    LET error == Stream_from_json_error(stream, existing_nodes)
    IN  [error |-> error, value |-> IF error.raised THEN <<>> ELSE Stream_from_json_value(stream)]

-----------------------------------------------------------------------------
(* topology.py *)

\* node_from_json: sync_domain = str(node.get('syncDomain', None)); '' becomes None
sync_domain_from_json(node) ==
    LET sync_domain == Str(Get(node, "syncDomain", PyNone))
    IN  IF sync_domain = "" THEN PyNone ELSE PyStr(sync_domain)

\* the NodeAttrs of Topology.node_from_json (name and ports are read by from_json)
node_from_json(node) ==
    [processing_delay  |-> Get(node, "processingDelay", DEFAULT_PROCESSING_DELAY),
     processing_jitter |-> Get(node, "processingJitter", DEFAULT_PROCESSING_JITTER),
     sync_domain       |-> sync_domain_from_json(node),
     sync_jitter       |-> Get(node, "syncJitter", DEFAULT_SYNC_JITTER)]

\* Topology._priority_list_from_json: TRUE iff it raises (a value outside 0..7)
priority_list_raises(raw_priorities) == \E i \in raw_priorities : i < 0 \/ i > 7

\* the exception Topology.port_from_json raises, NoError if it raises none
port_from_json_error(port, node_name) ==
    IF ~Has(port, "name")
    THEN TopologyParsingError(<<"Missing \"name\" key in port">>)
    ELSE IF priority_list_raises(Get(port, "expressPriorities", DEFAULT_EXPRESS_PRIORITIES))
    THEN TopologyParsingError(<<"\"expressPriorities\" key has wrong format in port ", port.name,
                                " that belongs to node ", node_name>>)
    ELSE IF priority_list_raises(Get(port, "gclPriorities", DEFAULT_GCL_PRIORITIES))
    THEN TopologyParsingError(<<"\"gclPriorities\" key has wrong format in port ", port.name,
                                " that belongs to node ", node_name>>)
    ELSE NoError

\* the PortAttrs of Topology.port_from_json; the gate cycle is read from the
\* key 'gcl_cycle', the other attributes from their camel-case keys
port_from_json(port) ==
    [express_priorities |-> Get(port, "expressPriorities", DEFAULT_EXPRESS_PRIORITIES),
     frame_preemption   |-> Get(port, "framePreemption", DEFAULT_FRAME_PREEMPTION_ENABLED),
     gcl                |-> Get(port, "gcl", DEFAULT_GCL_ENABLED),
     gcl_cycle          |-> Get(port, "gcl_cycle", DEFAULT_GCL_CYCLE),
     gcl_open           |-> Get(port, "gclOpen", DEFAULT_GCL_OPEN),
     gcl_offset         |-> Get(port, "gclOffset", DEFAULT_GCL_OFFSET),
     gcl_priorities     |-> Get(port, "gclPriorities", DEFAULT_GCL_PRIORITIES)]

\* the exception Topology.edge_from_json raises, NoError if it raises none
edge_from_json_error(edge) ==
    IF ~Has(edge, "port1")
    THEN TopologyParsingError(<<"Invalid \"port1\" key in topology edge">>)
    ELSE IF ~Has(edge, "port2")
    THEN TopologyParsingError(<<"Invalid \"port2\" key in topology edge">>)
    ELSE NoError

\* the EdgeAttrs of Topology.edge_from_json
edge_from_json(edge) ==
    [link_speed         |-> Get(edge, "linkSpeed", DEFAULT_LINK_SPEED),
     max_frame_size     |-> Get(edge, "maxFrameSize", DEFAULT_MAX_FRAME_SIZE),
     propagation_delay  |-> Get(edge, "propagationDelay", DEFAULT_PROPAGATION_DELAY),
     transmission_jitter |-> Get(edge, "transmissionJitter", DEFAULT_TRANSMISSION_JITTER)]

\* the first exception raised over a list of parse results, NoError if none
RECURSIVE FirstError(_)
FirstError(errors) ==
    IF errors = <<>> THEN NoError
    ELSE IF Head(errors).raised THEN Head(errors)
    ELSE FirstError(Tail(errors))

\* the exception Topology.node_from_json raises for a node and its ports
node_from_json_error(node) ==
    IF ~Has(node, "name")
    THEN TopologyParsingError(<<"Missing \"name\" key in node">>)
    ELSE LET port_list == Get(node, "ports", <<>>)
         IN  FirstError([k \in 1..Len(port_list) |-> port_from_json_error(port_list[k], node.name)])

\* the exception Topology.from_json raises: the required keys, then the nodes,
\* then the edges, then the streams, each list in order
from_json_error(topology) ==
    IF ~Has(topology, "name")
    THEN TopologyParsingError(<<"Missing \"name\" key in topology">>)
    ELSE IF ~Has(topology, "nodes")
    THEN TopologyParsingError(<<"Missing or invalid \"nodes\" key in topology">>)
    ELSE IF ~Has(topology, "edges")
    THEN TopologyParsingError(<<"Missing or invalid \"edges\" key in topology">>)
    ELSE IF ~Has(topology, "streams")
    THEN TopologyParsingError(<<"Missing or invalid \"streams\" key in topology">>)
    ELSE LET node_list == topology.nodes
             edge_list == topology.edges
             stream_list == topology.streams
             node_errors == [k \in 1..Len(node_list) |-> node_from_json_error(node_list[k])]
             edge_errors == [k \in 1..Len(edge_list) |-> edge_from_json_error(edge_list[k])]
         IN  IF FirstError(node_errors \o edge_errors).raised
             THEN FirstError(node_errors \o edge_errors)
             ELSE LET existing_nodes == {node_list[k].name : k \in 1..Len(node_list)}
                  IN  FirstError([k \in 1..Len(stream_list) |->
                                     Stream_from_json_error(stream_list[k], existing_nodes)])

\* the graph nodes of the forwarding nodes that from_json adds (add_node)
from_json_nodes(node_list) ==
    [n \in {node_list[k].name : k \in 1..Len(node_list)} |->
        node_from_json(node_list[CHOOSE k \in 1..Len(node_list) : node_list[k].name = n])]

\* the graph nodes of the ports that from_json adds (add_port_to_node)
from_json_ports(node_list) ==
    LET objects == UNION {{<<k, j>> : j \in 1..Len(Get(node_list[k], "ports", <<>>))} :
                             k \in 1..Len(node_list)}
        NameOf(o) == <<node_list[o[1]].name, node_list[o[1]].ports[o[2]].name>>
    IN  [q \in {NameOf(o) : o \in objects} |->
            port_from_json(node_list[(CHOOSE o \in objects : NameOf(o) = q)[1]]
                               .ports[(CHOOSE o \in objects : NameOf(o) = q)[2]])]

\* the graph edges between ports that from_json adds (add_edge)
from_json_edges(edge_list) ==
    [e \in {<<edge_list[k].port1, edge_list[k].port2>> : k \in 1..Len(edge_list)} |->
        edge_from_json(edge_list[CHOOSE k \in 1..Len(edge_list) :
                                     <<edge_list[k].port1, edge_list[k].port2>> = e])]

\* Topology.from_json: the exception it raises, or the Topology it returns
from_json(topology) ==
    LET error == from_json_error(topology)
    IN  IF error.raised
        THEN [error |-> error, name |-> "", description |-> "", nodes |-> <<>>, ports |-> <<>>,
              edges |-> <<>>, streams |-> <<>>]
        ELSE [error |-> error,
              name |-> topology.name,
              description |-> Get(topology, "description", ""),
              nodes |-> from_json_nodes(topology.nodes),
              ports |-> from_json_ports(topology.nodes),
              edges |-> from_json_edges(topology.edges),
              streams |-> [k \in 1..Len(topology.streams) |->
                              Stream_from_json_value(topology.streams[k])]]

\* the port object to_json writes: the gate attributes and the express
\* priorities only if enabled or different from the default
port_to_json(port_name, port_data) ==
    [name |-> port_name, framePreemption |-> port_data.frame_preemption, gcl |-> port_data.gcl]
    @@ Entry(port_data.frame_preemption \/ port_data.express_priorities # DEFAULT_EXPRESS_PRIORITIES,
             "expressPriorities", port_data.express_priorities)
    @@ Entry(port_data.gcl \/ port_data.gcl_cycle # DEFAULT_GCL_CYCLE, "gclCycle", port_data.gcl_cycle)
    @@ Entry(port_data.gcl \/ port_data.gcl_open # DEFAULT_GCL_OPEN, "gclOpen", port_data.gcl_open)
    @@ Entry(port_data.gcl \/ port_data.gcl_offset # DEFAULT_GCL_OFFSET, "gclOffset", port_data.gcl_offset)
    @@ Entry(port_data.gcl \/ port_data.gcl_priorities # DEFAULT_GCL_PRIORITIES,
             "gclPriorities", port_data.gcl_priorities)

\* the members of order that are in set, in the order of the list
InOrder(order, set) == SelectSeq(order, LAMBDA x : x \in set)

\* the node object to_json writes (sync_domain == True never holds for a str or None)
node_to_json(node_name, node_data, port_order, port_nodes) ==
    LET port_names == InOrder(port_order, {q \in DOMAIN port_nodes : q[1] = node_name})
    IN  [name |-> node_name, processingDelay |-> node_data.processing_delay,
         processingJitter |-> node_data.processing_jitter, syncDomain |-> node_data.sync_domain,
         ports |-> [k \in 1..Len(port_names) |->
                       port_to_json(port_names[k][2], port_nodes[port_names[k]])]]
        @@ Entry(node_data.sync_jitter # DEFAULT_SYNC_JITTER, "syncJitter", node_data.sync_jitter)

\* the edge object to_json writes
edge_to_json(edge_elem, edge_data) ==
    [port1 |-> edge_elem[1], port2 |-> edge_elem[2], linkSpeed |-> edge_data.link_speed,
     maxFrameSize |-> edge_data.max_frame_size, propagationDelay |-> edge_data.propagation_delay,
     transmissionJitter |-> edge_data.transmission_jitter]

\* Topology.to_json of the Topology t = [name, description, nodes, ports, edges,
\* streams]; node_order, port_order and edge_order are the orders of G.nodes and G.edges
to_json(t, node_order, port_order, edge_order) ==
    LET node_names == InOrder(node_order, DOMAIN t.nodes)
        edge_elems == InOrder(edge_order, DOMAIN t.edges)
    IN  [name |-> t.name, description |-> t.description,
         nodes |-> [k \in 1..Len(node_names) |->
                       node_to_json(node_names[k], t.nodes[node_names[k]], port_order, t.ports)],
         edges |-> [k \in 1..Len(edge_elems) |-> edge_to_json(edge_elems[k], t.edges[edge_elems[k]])],
         streams |-> [k \in 1..Len(t.streams) |-> Stream_to_json(t.streams[k])]]

are_synchronized(node1, node2) ==
    LET domain_1 == nodes[node1[1]].sync_domain
        domain_2 == nodes[node2[1]].sync_domain
    IN  (~domain_1.none) /\ (~domain_2.none) /\ domain_1 = domain_2

get_edge_data(a, b) == IF <<a, b>> \in DOMAIN edges THEN edges[<<a, b>>] ELSE edges[<<b, a>>]

-----------------------------------------------------------------------------
(* helpers.py *)

\* B bytes at L Mbit/s, in ns: (B / (L / 8 * 1000000)) * 1000000000
get_transmission_duration(framesize, link_speed) == Quot(framesize * 8000, link_speed)

PortStatistics(node_name, port_name, direction) ==
    [node_name |-> node_name, port_name |-> port_name, direction |-> direction,
     best_case |-> 0, worst_case |-> 0, resource_utilization |-> FracOfInt(0)]

\* StreamStatistics.__init__: one entry per forwarding node ('rx') and tx port
\* strictly inside the path
RECURSIVE StreamStatisticsInit(_, _)
StreamStatisticsInit(path, index) ==
    IF index >= Len(path) THEN <<>>
    ELSE IF index = 1 \/ is_rx_port(path[index], path)
         THEN StreamStatisticsInit(path, index + 1)
    ELSE LET node_name == path[index]
             one == IF is_forwarding_node(node_name)
                    THEN PortStatistics(node_name[1], PyNone, "rx")
                    ELSE PortStatistics(node_name[1], PyStr(node_name[2]), "tx")
         IN  <<one>> \o StreamStatisticsInit(path, index + 1)

\* index of the statistics get_port_statistics(node_name) returns, 0 when the
\* code raises IndexError
get_port_statistics(stats, name) ==
    LET node_name == name[1]
        port_name == IF Len(name) > 1 THEN PyStr(name[2]) ELSE PyNone
        hits == {k \in 1..Len(stats) :
                    /\ stats[k].node_name = node_name
                    /\ (port_name.none \/ stats[k].port_name = port_name)}
    IN  IF hits = {} THEN 0 ELSE CHOOSE k \in hits : \A j \in hits : k <= j

\* f'{statistics.node_name}-{statistics.port_name}-{statistics.direction}'
StatisticsKey(st) == <<st.node_name, Str(st.port_name), st.direction>>
\* f'{forwarding_node_name}-tx', forwarding_node_name possibly None
StopAtNode(anc) == <<IF anc.found THEN anc.name[1] ELSE "None", "tx">>

\* the delays get_summarized_*_case(stop_at_node) adds up: all of them, or those
\* up to and including the first whose key equals stop_at_node
RECURSIVE DelaysUntil(_, _, _)
DelaysUntil(stats, stop, k) ==
    IF k > Len(stats) THEN <<>>
    ELSE IF stop.given /\ stop.key = StatisticsKey(stats[k]) THEN <<k>>
    ELSE <<k>> \o DelaysUntil(stats, stop, k + 1)

NoStop == [given |-> FALSE, key |-> <<>>]
StopAt(key) == [given |-> TRUE, key |-> key]

get_summarized_best_case(stats, stop) ==
    LET ks == DelaysUntil(stats, stop, 1)
    IN  Sum([j \in 1..Len(ks) |-> stats[ks[j]].best_case])

get_summarized_worst_case(stats, stop) ==
    LET ks == DelaysUntil(stats, stop, 1)
    IN  Sum([j \in 1..Len(ks) |-> stats[ks[j]].worst_case])

-----------------------------------------------------------------------------
(* calculator.py: interference and bandwidth *)

NoneName == <<>>

Last(q) == q[Len(q)]
Prev(q) == q[Len(q) - 1]

InPath(name, path) == \E i \in 1..Len(path) : path[i] = name

\* only the crossing streams that come before the observed one in the list
get_crossing_streams_before(observed_stream_name, port_node_name) ==
    LET observed == CHOOSE k \in 1..Len(streams) : streams[k].name = observed_stream_name
    IN  SelectSeq(SubSeq(streams, 1, observed - 1), LAMBDA stream :
            InPath(port_node_name, stream_paths[stream.name]))

get_crossing_streams(observed_stream_name, port_node_name) ==
    SelectSeq(streams, LAMBDA stream :
        /\ InPath(port_node_name, stream_paths[stream.name])
        /\ stream.name # observed_stream_name)

\* a selector that knows the priority rule only, not the express priorities
get_interfering_streams_by_priority(observed_stream, port_name) ==
    SelectSeq(get_crossing_streams(observed_stream.name, port_name),
              LAMBDA stream : stream.priority >= observed_stream.priority)

get_interfering_streams(observed_stream, port_name) ==
    LET express_priorities == ports[port_name].express_priorities
        crossing_streams == get_crossing_streams(observed_stream.name, port_name)
    IN  IF observed_stream.priority \in express_priorities
        THEN SelectSeq(crossing_streams, LAMBDA stream :
                /\ stream.priority >= observed_stream.priority
                /\ stream.priority \in express_priorities)
        ELSE SelectSeq(crossing_streams, LAMBDA stream :
                \/ stream.priority \in express_priorities
                \/ stream.priority >= observed_stream.priority)

get_bandwidth(table, stream, node_name) ==
    IF <<stream.name, node_name>> \in DOMAIN table
    THEN table[<<stream.name, node_name>>]
    ELSE stream.framesize

\* set_bandwidth without the comparison of line 77: the entry is always written
set_bandwidth_unguarded(table, stream, node_name, bandwidth) ==
    [k \in DOMAIN table \cup {<<stream.name, node_name>>} |->
        IF k = <<stream.name, node_name>> THEN bandwidth ELSE table[k]]

\* the table after set_bandwidth(stream, node_name, bandwidth)
set_bandwidth(table, stream, node_name, bandwidth) ==
    IF get_bandwidth(table, stream, node_name) < bandwidth
    THEN [k \in DOMAIN table \cup {<<stream.name, node_name>>} |->
            IF k = <<stream.name, node_name>> THEN bandwidth ELSE table[k]]
    ELSE table

\* node_a = NoneName stands for the call with node_a=None and ct_a given
get_new_bandwidth(table, stream, d_arriv, node_a, node_b, ct_a_given) ==
    LET ct_a == IF node_a # NoneName THEN ports[node_a].gcl_cycle ELSE ct_a_given
        ct_b == ports[node_b].gcl_cycle
        factor_arriv == Ceil(d_arriv, ct_b)
        factor_ct == Ceil(ct_b, ct_a)
    IN  get_bandwidth(table, stream, node_a) * factor_arriv * factor_ct

\* one iteration of the loop of recalculate_bandwidth_for_stream
RecalculateAt(table, stream, stats, index) ==
    LET path == stream_paths[stream.name]
        node_name == path[index]
        forwarding_node_name == get_ancestor_forwarding_node_name(path, index)
        ancestor_port_node_name == get_ancestor_tx_port_node_name(path, index)
        stop == StopAt(StopAtNode(forwarding_node_name))
        best_case_sum == get_summarized_best_case(stats, stop)
        worst_case_sum == get_summarized_worst_case(stats, stop)
        d_arriv == worst_case_sum - best_case_sum
        new_bandwidth ==
            IF index = 2
            THEN get_new_bandwidth(table, stream, d_arriv, NoneName, node_name, stream.cycletime)
            ELSE get_new_bandwidth(table, stream, d_arriv, ancestor_port_node_name.name, node_name, 0)
    IN  IF index = 1 \/ is_forwarding_node(node_name) THEN table
        ELSE IF is_rx_port(node_name, path) THEN table
        ELSE IF (~ancestor_port_node_name.found) /\ index # 2 THEN table
        ELSE set_bandwidth(table, stream, node_name, new_bandwidth)

RECURSIVE RecalculateFrom(_, _, _, _)
RecalculateFrom(table, stream, stats, index) ==
    IF index >= Len(stream_paths[stream.name]) THEN table
    ELSE RecalculateFrom(RecalculateAt(table, stream, stats, index), stream, stats, index + 1)

recalculate_bandwidth_for_stream(table, stream, stats) ==
    RecalculateFrom(table, stream, stats, 1)

\* recalculate_bandwidth(streams=None): every stream, in list order
RECURSIVE recalculate_bandwidth(_, _)
recalculate_bandwidth(table, k) ==
    IF k > Len(streams) THEN table
    ELSE recalculate_bandwidth(
            recalculate_bandwidth_for_stream(table, streams[k], stream_statistics[streams[k].name]),
            k + 1)

\* node_name = NoneName stands for node_name=None
get_stream_transmission_duration(stream, link_speed, node_name) ==
    LET framesize == IF node_name # NoneName
                     THEN get_bandwidth(bandwidth_per_stream_and_node, stream, node_name)
                     ELSE stream.framesize
    IN  get_transmission_duration(framesize + L1Overhead, link_speed)

-----------------------------------------------------------------------------
(* calculator.py: calculate_delays_for_stream *)

BestEntry(node, w_start, w_end, cum_start, cum_end) ==
    [node |-> node, w_start |-> w_start, w_end |-> w_end,
     cum_start |-> cum_start, cum_end |-> cum_end]

WorstEntry(node, w_start, w_end, cum_start, cum_end, cycle) ==
    [node |-> node, w_start |-> w_start, w_end |-> w_end,
     cum_start |-> cum_start, cum_end |-> cum_end, cycle |-> cycle]

\* what the propagator computed at one path index (the loop's locals)
NoHop(kind) ==
    [regime |-> kind, is_synchronized |-> FALSE, interfering_streams |-> <<>>,
     d_trans |-> 0, blck_bytes |-> 0, d_blck |-> 0, d_interference |-> 0,
     d_dwell |-> 0, prev_cycle |-> 0]

\* lines 186-194: a forwarding node
ForwardingNodeHop(node_name, best_case, worst_case) ==
    LET node_data == nodes[node_name[1]]
        d_proc == node_data.processing_delay
        d_proc_bc == d_proc - node_data.processing_jitter
        d_proc_wc == d_proc + node_data.processing_jitter
        b == Last(best_case)
        w == Last(worst_case)
    IN  [best |-> BestEntry(node_name, b.w_start + d_proc_bc, b.w_end + d_proc_bc,
                            b.cum_start + d_proc_bc, b.cum_end + d_proc_bc),
         worst |-> WorstEntry(node_name, w.w_start + d_proc_wc, w.w_end + d_proc_wc,
                              w.cum_start + d_proc_wc, w.cum_start + d_proc_wc, 0),
         multiplication |-> FracOfInt(1),
         hop |-> NoHop("fwd")]

\* the interfering streams without the narrowing of lines 224-228 (Equation 3)
PropagatorInterferingStreamsNoGate(stream, node_name) ==
    LET node_data == ports[node_name]
        eq1 == SelectSeq(get_interfering_streams(stream, node_name),
                         LAMBDA s : s.priority >= stream.priority)
    IN  IF node_data.frame_preemption /\ node_data.express_priorities # {}
        THEN SelectSeq(eq1, LAMBDA s : s.priority \in node_data.express_priorities)
        ELSE eq1

\* lines 211-236: the interfering streams the propagator counts at a tx port
PropagatorInterferingStreams(stream, node_name) ==
    LET node_data == ports[node_name]
        eq1 == SelectSeq(get_interfering_streams(stream, node_name),
                         LAMBDA s : s.priority >= stream.priority)
        eq2 == IF node_data.frame_preemption /\ node_data.express_priorities # {}
               THEN SelectSeq(eq1, LAMBDA s : s.priority \in node_data.express_priorities)
               ELSE eq1
    IN  IF node_data.gcl /\ node_data.gcl_priorities # {}
        THEN SelectSeq(eq2, LAMBDA s : s.priority \in node_data.gcl_priorities)
        ELSE eq2

\* lines 241-257: the bytes of the blocking frame
\* the blocking bytes without the express case of lines 251-252
BlockingBytesNoExpress(stream, node_data, edge) ==
    LET gcl_priorities == IF node_data.gcl THEN node_data.gcl_priorities ELSE 0..7
    IN  IF {p \in gcl_priorities : p < stream.priority} = {} THEN 0
        ELSE edge.max_frame_size + L1Overhead

BlockingBytes(stream, node_data, edge) ==
    LET express_priorities == IF node_data.frame_preemption
                              THEN node_data.express_priorities ELSE {}
        gcl_priorities == IF node_data.gcl THEN node_data.gcl_priorities ELSE 0..7
        blck_bytes == IF stream.priority \in express_priorities
                      THEN ExpressBlockBytes + L1Overhead
                      ELSE edge.max_frame_size + L1Overhead
    IN  IF {p \in gcl_priorities : p < stream.priority} = {} THEN 0 ELSE blck_bytes

\* lines 230-236: d_interference
InterferenceDelay(stream, node_name, edge, prev_cycle, interfering_streams) ==
    LET interfering_streams_delays ==
            [k \in 1..Len(interfering_streams) |->
                get_stream_transmission_duration(interfering_streams[k], edge.link_speed, node_name)
                + edge.transmission_jitter]
    IN  (IF ~ContainsTalker(node_name) THEN Sum(interfering_streams_delays) ELSE 0)
        * Ceil(prev_cycle, stream.cycletime)

\* lines 204-209, 261, 266: the delays of the hop, from d_trans, d_interference
\* and blck_bytes
HopDelays(node_name, node_data, edge, prev_cycle, interfering_streams, d_trans, d_interference, blck_bytes) ==
    LET d_prop == edge.propagation_delay
        d_blck == IF ~ContainsTalker(node_name)
                  THEN get_transmission_duration(blck_bytes, edge.link_speed) ELSE 0
    IN  [d_trans |-> d_trans,
         d_trans_bc |-> d_trans - edge.transmission_jitter + d_prop,
         d_trans_wc |-> d_trans + edge.transmission_jitter + d_prop,
         d_interference |-> d_interference,
         n_interfering |-> Len(interfering_streams),
         interfering_streams |-> [k \in 1..Len(interfering_streams) |-> interfering_streams[k].name],
         blck_bytes |-> blck_bytes,
         d_blck |-> d_blck,
         d_dwell |-> d_trans + edge.transmission_jitter + d_prop + d_blck
                     + Max(0, prev_cycle - node_data.gcl_cycle),
         prev_cycle |-> prev_cycle]

\* lines 203-266: the locals of a tx port hop
TxPortDelays(stream, node_name, node_data, edge, prev_cycle, interfering_streams) ==
    HopDelays(node_name, node_data, edge, prev_cycle, interfering_streams,
              get_stream_transmission_duration(stream, edge.link_speed, NoneName),
              InterferenceDelay(stream, node_name, edge, prev_cycle, interfering_streams),
              BlockingBytes(stream, node_data, edge))

\* lines 282-348: the best-case gate waits of a synchronized gate
\* <<d_gate_1, d_gate_2, offset_correction_1, offset_correction_2>>
BestGate(node_data, b, d_trans_bc) ==
    LET early_1 == node_data.gcl_offset - (b.w_start % node_data.gcl_cycle)
        early_2 == node_data.gcl_offset - b.w_end
        remaining_1 == (node_data.gcl_offset + node_data.gcl_open) - (b.w_start % node_data.gcl_cycle)
        remaining_2 == (node_data.gcl_offset + node_data.gcl_open) - (b.w_end % node_data.gcl_cycle)
    IN  IF early_1 >= 0
        THEN IF early_2 >= 0 THEN <<early_1, early_2, 0, 0>>
             ELSE IF remaining_2 >= d_trans_bc THEN <<early_1, 0, 0, 0>>
             ELSE <<early_1, 0, 0, -remaining_2>>
        ELSE IF remaining_1 >= d_trans_bc /\ remaining_2 >= d_trans_bc THEN <<0, 0, 0, 0>>
             ELSE IF remaining_1 >= d_trans_bc THEN <<0, 0, 0, 0>>
             ELSE <<0, 0, 0, 0>>

\* the worst-case gate waits without the branch of lines 378-390 (only the end
\* of the window misses the gate)
WorstGateWithoutMiss(node_data, w, d) ==
    LET late_1 == (node_data.gcl_offset + node_data.gcl_open) - (w.w_start % node_data.gcl_cycle)
        late_2 == (node_data.gcl_offset + node_data.gcl_open) - (w.w_end % node_data.gcl_cycle)
        early_1 == node_data.gcl_offset - (w.w_start % node_data.gcl_cycle)
        early_2 == node_data.gcl_offset - (w.w_end % node_data.gcl_cycle)
        tmp == d.d_trans + d.d_blck + d.d_interference
    IN  IF late_1 < tmp /\ late_2 < tmp
        THEN <<node_data.gcl_cycle - (w.w_start % node_data.gcl_cycle) + node_data.gcl_open,
               node_data.gcl_cycle - (w.w_end % node_data.gcl_cycle) + node_data.gcl_open>>
        ELSE IF early_2 >= 0 THEN <<early_1, early_2>>
        ELSE IF early_1 >= 0 THEN <<early_1, 0>>
        ELSE <<0, 0>>

\* lines 356-418: the worst-case gate waits of a synchronized gate
\* <<d_gate_1, d_gate_2>>
WorstGate(node_data, w, d) ==
    LET late_1 == (node_data.gcl_offset + node_data.gcl_open) - (w.w_start % node_data.gcl_cycle)
        late_2 == (node_data.gcl_offset + node_data.gcl_open) - (w.w_end % node_data.gcl_cycle)
        early_1 == node_data.gcl_offset - (w.w_start % node_data.gcl_cycle)
        early_2 == node_data.gcl_offset - (w.w_end % node_data.gcl_cycle)
        tmp == d.d_trans + d.d_blck + d.d_interference
        d_gate_unsync == node_data.gcl_cycle - node_data.gcl_open + d.d_trans
                         + Quot(d.d_interference, Max(1, d.n_interfering))
    IN  IF late_1 < tmp /\ late_2 < tmp
        THEN <<node_data.gcl_cycle - (w.w_start % node_data.gcl_cycle) + node_data.gcl_open,
               node_data.gcl_cycle - (w.w_end % node_data.gcl_cycle) + node_data.gcl_open>>
        ELSE IF late_2 < tmp
        THEN <<0, d_gate_unsync + Max(0, node_data.gcl_cycle - d.prev_cycle)>>
        ELSE IF early_2 >= 0 THEN <<early_1, early_2>>
        ELSE IF early_1 >= 0 THEN <<early_1, 0>>
        ELSE <<0, 0>>

\* lines 346-348: the best-case entry of a synchronized gate, bg = BestGate(...)
BestForward(node_name, b, d, sync_jitter, bg) ==
    BestEntry(node_name,
              b.w_start + (bg[1] + d.d_trans_bc - sync_jitter) + bg[3],
              b.w_end + (bg[2] + d.d_trans_bc - sync_jitter) + bg[4],
              b.cum_start + (bg[1] + d.d_trans_bc - sync_jitter),
              b.cum_end + (bg[2] + d.d_trans_bc - sync_jitter))

\* lines 422-424: the worst-case entry of a synchronized gate, wg = WorstGate(...)
WorstForward(node_name, node_data, w, d, sync_jitter, wg) ==
    LET rest == d.d_trans + d.d_blck + d.d_interference + sync_jitter
                + Max(0, node_data.gcl_cycle - d.prev_cycle)
    IN  WorstEntry(node_name, w.w_start + (wg[1] + rest), w.w_end + (wg[2] + rest),
                   w.cum_start + (wg[1] + rest), w.cum_end + (wg[2] + rest),
                   node_data.gcl_cycle)

\* lines 279-424: TAS, synchronized, window known
RegimeA(node_name, node_data, forwarding_node_data, b, w, d) ==
    [best |-> BestForward(node_name, b, d, forwarding_node_data.sync_jitter,
                          BestGate(node_data, b, d.d_trans_bc)),
     worst |-> WorstForward(node_name, node_data, w, d, forwarding_node_data.sync_jitter,
                            WorstGate(node_data, w, d))]

\* the unsynchronized gate without the excess of lines 431-436
RegimeBWithoutExcess(node_name, node_data, b, w, d) ==
    LET gcl_open == node_data.gcl_offset
        gcl_close == node_data.gcl_offset + node_data.gcl_open
        d_gate == node_data.gcl_cycle - node_data.gcl_open + d.d_trans
                  + Quot(d.d_interference, Max(1, d.n_interfering))
        d_forward == d_gate + d.d_dwell
    IN  [best |-> BestEntry(node_name, gcl_open, gcl_close, b.cum_start + d.d_trans_bc,
                            b.cum_end + d.d_trans_bc),
         worst |-> WorstEntry(node_name, gcl_open, gcl_close, w.cum_start + d_forward,
                              w.cum_end + d_forward, node_data.gcl_cycle)]

\* lines 430-444: TAS, unsynchronized or window unknown
RegimeB(node_name, node_data, b, w, d) ==
    LET exceeding == (b.w_end - b.w_start) - node_data.gcl_open
        gcl_open == node_data.gcl_offset
        gcl_close == node_data.gcl_offset + node_data.gcl_open
        d_gate == node_data.gcl_cycle - node_data.gcl_open + d.d_trans
                  + Quot(d.d_interference, Max(1, d.n_interfering))
        d_forward == d_gate + d.d_dwell
    IN  [best |-> BestEntry(node_name, gcl_open, gcl_close, b.cum_start + d.d_trans_bc,
                            b.cum_end + d.d_trans_bc + (IF exceeding > 0 THEN exceeding ELSE 0)),
         worst |-> WorstEntry(node_name, gcl_open, gcl_close, w.cum_start + d_forward,
                              w.cum_end + d_forward, node_data.gcl_cycle)]

\* lines 452-455: SP or FP, synchronized, window known
RegimeC(node_name, b, w, d) ==
    [best |-> BestEntry(node_name, b.w_start + d.d_trans_bc, b.w_end + d.d_trans_bc,
                        b.cum_start + d.d_trans_bc, b.cum_end + d.d_trans_bc),
     worst |-> WorstEntry(node_name, w.w_start + d.d_dwell + d.d_interference,
                          w.w_end + d.d_dwell + d.d_interference,
                          w.cum_start + d.d_dwell + d.d_interference,
                          w.cum_end + d.d_dwell + d.d_interference, d.prev_cycle)]

\* lines 457-460: SP or FP, unsynchronized or window unknown
RegimeD(node_name, b, w, d) ==
    [best |-> BestEntry(node_name, -1, d.prev_cycle - (d.d_trans_wc * 3),
                        b.cum_start + d.d_trans_bc, b.cum_end + d.d_trans_bc),
     worst |-> WorstEntry(node_name, -1, d.prev_cycle - (d.d_trans_wc * 3),
                          w.cum_start + d.d_dwell + d.d_interference,
                          w.cum_end + d.d_dwell + d.d_interference, d.prev_cycle)]

\* lines 269-460: the branch the hop takes
Regime(node_data, is_synchronized, b) ==
    IF node_data.gcl
    THEN (IF is_synchronized /\ b.w_start # -1 THEN "A" ELSE "B")
    ELSE (IF is_synchronized /\ b.w_start # -1 THEN "C" ELSE "D")

\* the entries the hop appends, with what it computed on the way
TxPortResult(entries, regime, is_synchronized, node_data, d) ==
    [best |-> entries.best, worst |-> entries.worst,
     multiplication |-> IF node_data.gcl
                        THEN Frac(node_data.gcl_cycle, Max(1, d.prev_cycle))
                        ELSE FracOfInt(1),
     hop |-> [regime |-> regime, is_synchronized |-> is_synchronized,
              interfering_streams |-> d.interfering_streams,
              d_trans |-> d.d_trans, blck_bytes |-> d.blck_bytes, d_blck |-> d.d_blck,
              d_interference |-> d.d_interference, d_dwell |-> d.d_dwell,
              prev_cycle |-> d.prev_cycle]]

\* lines 269-460, d = the locals of lines 203-266
TxPortEntries(node_name, node_data, forwarding_node_data, is_synchronized, regime, b, w, d) ==
    TxPortResult(CASE regime = "A" -> RegimeA(node_name, node_data, forwarding_node_data, b, w, d)
                   [] regime = "B" -> RegimeB(node_name, node_data, b, w, d)
                   [] regime = "C" -> RegimeC(node_name, b, w, d)
                   [] OTHER -> RegimeD(node_name, b, w, d),
                 regime, is_synchronized, node_data, d)

\* line 200
IsSynchronized(forwarding_node_name, ancestor_forwarding_node_name) ==
    IF ancestor_forwarding_node_name.found
    THEN are_synchronized(forwarding_node_name, ancestor_forwarding_node_name.name)
    ELSE TRUE

TxPortWith(stream, node_name, node_data, edge, is_synchronized, b, w, prev_cycle) ==
    TxPortEntries(node_name, node_data, nodes[node_name[1]], is_synchronized,
                  Regime(node_data, is_synchronized, b), b, w,
                  TxPortDelays(stream, node_name, node_data, edge, prev_cycle,
                               PropagatorInterferingStreams(stream, node_name)))

\* a tx port that reads the cycle of the newest worst entry (the entry of the
\* forwarding node) instead of worst_case[-2][5]
TxPortHopNewestCycle(stream, path, index, best_case, worst_case) ==
    TxPortWith(stream, path[index], ports[path[index]],
               get_edge_data(path[index], path[index + 1]),
               IsSynchronized(ForwardingNodeOf(path[index]),
                              get_ancestor_forwarding_node_name(path, index)),
               Last(best_case), Last(worst_case), Last(worst_case).cycle)

\* lines 196-460: a tx port
TxPortHop(stream, path, index, best_case, worst_case) ==
    TxPortWith(stream, path[index], ports[path[index]],
               get_edge_data(path[index], path[index + 1]),
               IsSynchronized(ForwardingNodeOf(path[index]),
                              get_ancestor_forwarding_node_name(path, index)),
               Last(best_case), Last(worst_case), Prev(worst_case).cycle)

\* lines 463-476: the end of a loop iteration that appended best and worst
FinishHop(node_name, acc, stepped) ==
    LET b0 == stepped.best
        b1 == IF b0.w_end < b0.w_start THEN [b0 EXCEPT !.w_end = b0.w_start] ELSE b0
        endpoint == ContainsTalker(node_name) \/ ContainsListener(node_name)
        pb == Last(acc.best_case)
        pw == Last(acc.worst_case)
        b2 == IF endpoint THEN [b1 EXCEPT !.cum_start = pb.cum_start, !.cum_end = pb.cum_end] ELSE b1
        w2 == IF endpoint
              THEN [stepped.worst EXCEPT !.cum_start = pw.cum_start, !.cum_end = pw.cum_end]
              ELSE stepped.worst
        k == get_port_statistics(acc.stats, node_name)
    IN  [best_case |-> Append(acc.best_case, b2),
         worst_case |-> Append(acc.worst_case, w2),
         multiplication |-> Append(acc.multiplication, stepped.multiplication),
         hops |-> Append(acc.hops, stepped.hop),
         stats |-> IF k = 0 THEN acc.stats
                   ELSE [acc.stats EXCEPT ![k].best_case = Min(b2.cum_start, b2.cum_end),
                                          ![k].worst_case = Max(w2.cum_start, w2.cum_end)]]

\* one iteration of the loop over the path
Hop(stream, path, index, acc) ==
    LET node_name == path[index]
    IN  IF is_rx_port(node_name, path)
        THEN [acc EXCEPT !.multiplication = Append(@, FracOfInt(1)),
                         !.hops = Append(@, NoHop("rx"))]
        ELSE IF is_forwarding_node(node_name)
        THEN FinishHop(node_name, acc, ForwardingNodeHop(node_name, acc.best_case, acc.worst_case))
        ELSE FinishHop(node_name, acc, TxPortHop(stream, path, index, acc.best_case, acc.worst_case))

RECURSIVE Walk(_, _, _, _)
Walk(stream, path, index, acc) ==
    IF index > Len(path) THEN acc
    ELSE Walk(stream, path, index + 1, Hop(stream, path, index, acc))

\* line 481 and the statistics: what a walk that ended with acc returns
Returned(acc) ==
    [best_case |-> acc.best_case, worst_case |-> acc.worst_case,
     multiplication |-> acc.multiplication, hops |-> acc.hops, stats |-> acc.stats,
     bc |-> Min(Prev(acc.best_case).cum_start, Prev(acc.best_case).cum_end),
     wc |-> Max(Prev(acc.worst_case).cum_start, Prev(acc.worst_case).cum_end)]

\* [best_case, worst_case, multiplication, hops, stats, bc, wc]: the two traces,
\* stream.saved_multiplications, the loop's locals, the statistics as written and
\* the two summarized values returned
calculate_delays_for_stream(stream, stats) ==
    Returned(Walk(stream, stream_paths[stream.name], 1,
        [best_case |-> <<BestEntry(<<"init">>, stream.offset,
                                   stream.offset + stream.transmission_window, 0, 0)>>,
         worst_case |-> <<WorstEntry(<<"init">>, stream.offset,
                                     stream.offset + stream.transmission_window, 0, 0,
                                     stream.cycletime)>>,
         multiplication |-> <<>>,
         hops |-> <<>>,
         stats |-> [k \in 1..Len(stats) |-> [stats[k] EXCEPT !.best_case = 0, !.worst_case = 0]]]))

\* a Calculator that extends a stream's list of multiplication factors on every
\* pass instead of replacing it
StoredAppending(state, stream, r) ==
    [stats |-> [state.stats EXCEPT ![stream.name] = r.stats],
     saved |-> [state.saved EXCEPT ![stream.name] = state.saved[stream.name] \o r.multiplication],
     delays |-> [state.delays EXCEPT ![stream.name] = r]]

\* the Calculator after calculate_delays_for_stream(stream) returned r
Stored(state, stream, r) ==
    [stats |-> [state.stats EXCEPT ![stream.name] = r.stats],
     saved |-> [state.saved EXCEPT ![stream.name] = r.multiplication],
     delays |-> [state.delays EXCEPT ![stream.name] = r]]

\* calculate_delays(streams=None) from stream k on: [stats, saved, delays]
RECURSIVE calculate_delays(_, _)
calculate_delays(state, k) ==
    IF k > Len(streams) THEN state
    ELSE calculate_delays(
            Stored(state, streams[k],
                   calculate_delays_for_stream(streams[k], state.stats[streams[k].name])),
            k + 1)

-----------------------------------------------------------------------------
(* calculator.py: get_resource_utilization *)

\* one iteration of the loop of get_resource_utilization_for_stream
UtilizationAt(stream, saved, index, acc) ==
    LET path == stream_paths[stream.name]
        node_name == path[index]
        node_data == ports[node_name]
        k == get_port_statistics(acc.stats, node_name)
        edge == get_edge_data(node_name, path[index + 1])
        interfering_streams == get_interfering_streams(stream, node_name)
        interfering_streams_delays ==
            [j \in 1..Len(interfering_streams) |->
                get_stream_transmission_duration(interfering_streams[j], edge.link_speed, node_name)
                + edge.transmission_jitter]
        factor == IF index <= Len(saved)
                  THEN FracMul(acc.factor, FracMax(FracOfInt(1), saved[index]))
                  ELSE acc.factor
        window_size == IF node_data.gcl THEN node_data.gcl_open ELSE stream.cycletime
        own == FracMul(FracOfInt(get_stream_transmission_duration(stream, edge.link_speed, node_name)),
                       factor)
        occupancy == FracAdd(FracOfInt(Sum(interfering_streams_delays)), own)
        u == FracDivInt(occupancy, window_size)
    IN  IF ~is_tx_port(node_name, path) THEN acc
        ELSE [factor |-> factor,
              occupancies |-> Append(acc.occupancies, u),
              stats |-> [acc.stats EXCEPT ![k].resource_utilization = u]]

RECURSIVE UtilizationFrom(_, _, _, _)
UtilizationFrom(stream, saved, index, acc) ==
    IF index > Len(stream_paths[stream.name]) THEN acc
    ELSE UtilizationFrom(stream, saved, index + 1, UtilizationAt(stream, saved, index, acc))

\* [occupancies, stats]
get_resource_utilization_for_stream(stream, stats, saved) ==
    LET cleared == [k \in 1..Len(stats) |-> [stats[k] EXCEPT !.resource_utilization = FracOfInt(0)]]
    IN  UtilizationFrom(stream, saved, 1,
                        [factor |-> FracOfInt(1), occupancies |-> <<>>, stats |-> cleared])

RECURSIVE FracMaxOf(_)
FracMaxOf(q) == IF Len(q) = 1 THEN q[1] ELSE FracMax(q[1], FracMaxOf(Tail(q)))

\* lines 546-550: the second loop returns in its first iteration
Estimated(propagated, stream, r) ==
    [stats |-> [propagated.stats EXCEPT ![stream.name] = r.stats],
     saved |-> propagated.saved,
     delays |-> propagated.delays,
     value |-> FracMaxOf(r.occupancies)]

EstimateFirst(propagated, stream) ==
    Estimated(propagated, stream,
              get_resource_utilization_for_stream(stream, propagated.stats[stream.name],
                                                  propagated.saved[stream.name]))

\* get_resource_utilization(streams=None): every stream is propagated, then the
\* first stream is estimated
get_resource_utilization(state) == EstimateFirst(calculate_delays(state, 1), streams[1])

-----------------------------------------------------------------------------
(* The topologies and streams of the model *)

\* talker and node0 send through sw1 and sw2 to listener:
\*   talker-1 -- sw1-2, node0-1 -- sw1-3, sw1-1 -- sw2-2, sw2-1 -- listener-1
NodeNames == {"talker", "node0", "sw1", "sw2", "listener"}
PortNames == {<<"talker", "1">>, <<"node0", "1">>, <<"sw1", "1">>, <<"sw1", "2">>,
              <<"sw1", "3">>, <<"sw2", "1">>, <<"sw2", "2">>, <<"listener", "1">>}
EdgeNames == {<<<<"talker", "1">>, <<"sw1", "2">>>>, <<<<"node0", "1">>, <<"sw1", "3">>>>,
              <<<<"sw1", "1">>, <<"sw2", "2">>>>, <<<<"sw2", "1">>, <<"listener", "1">>>>}

\* nx.shortest_path(G, sender, 'listener') on this graph
shortest_path(sender) ==
    <<<<sender>>, <<sender, "1">>, <<"sw1", IF sender = "talker" THEN "2" ELSE "3">>,
      <<"sw1">>, <<"sw1", "1">>, <<"sw2", "2">>, <<"sw2">>, <<"sw2", "1">>,
      <<"listener", "1">>, <<"listener">>>>

\* the JSON object of a forwarding node
NodeJson(has, domain) ==
    [processingDelay |-> 1000, processingJitter |-> 50, syncJitter |-> 30]
    @@ Entry(has, "syncDomain", PyStr(domain))
SyncedNodeJson == NodeJson(TRUE, "1")
\* the JSON objects of sw1 and sw2
SwitchNodeJsons == {<<NodeJson(TRUE, "1"), NodeJson(TRUE, "1")>>,
                    <<NodeJson(TRUE, "1"), NodeJson(TRUE, "2")>>,
                    <<NodeJson(FALSE, ""), NodeJson(FALSE, "")>>,
                    <<NodeJson(TRUE, ""), NodeJson(TRUE, "")>>}

\* PortAttrs
Port(gcl, gcl_cycle, gcl_open, gcl_offset, gcl_priorities, frame_preemption, express_priorities) ==
    [gcl |-> gcl, gcl_cycle |-> gcl_cycle, gcl_open |-> gcl_open, gcl_offset |-> gcl_offset,
     gcl_priorities |-> gcl_priorities, frame_preemption |-> frame_preemption,
     express_priorities |-> express_priorities]
DefaultPort == Port(FALSE, DEFAULT_GCL_CYCLE, DEFAULT_GCL_OPEN, DEFAULT_GCL_OFFSET,
                    DEFAULT_GCL_PRIORITIES, FALSE, DEFAULT_EXPRESS_PRIORITIES)
SwitchPorts == {DefaultPort,
                Port(FALSE, 5000, 2000, 1000, {7}, FALSE, {7}),
                Port(FALSE, DEFAULT_GCL_CYCLE, DEFAULT_GCL_OPEN, DEFAULT_GCL_OFFSET, 0..7, TRUE, {7}),
                Port(TRUE, 20000, 2000, 1000, {0, 7}, FALSE, {}),
                Port(TRUE, 10000, 4000, 5000, {7}, TRUE, {7})}

LastPorts == {DefaultPort,
              Port(TRUE, 20000, 2000, 5000, {0, 7}, FALSE, {}),
              Port(TRUE, 10000, 2000, 8000, {7}, TRUE, {7})}

\* EdgeAttrs
Edge(max_frame_size, transmission_jitter) ==
    [link_speed |-> DEFAULT_LINK_SPEED, propagation_delay |-> 100,
     transmission_jitter |-> transmission_jitter, max_frame_size |-> max_frame_size]
EdgeAttrs(e) == IF e[1] \in {<<"node0", "1">>, <<"sw1", "1">>} THEN Edge(100, 10) ELSE Edge(300, 0)

Stream(name, sender, priority, framesize, cycletime, transmission_window) ==
    [name |-> name, sender |-> sender, receiver |-> "listener", priority |-> priority,
     framesize |-> framesize, cycletime |-> cycletime, offset |-> 0,
     transmission_window |-> transmission_window]
FirstStreams == {Stream("stream 1", sender, priority, 30, cycletime, 500) :
                    sender \in {"talker", "node0"}, priority \in {0, 7}, cycletime \in {10000}}
SecondStreams == {Stream("stream 2", "node0", priority, 80, 10000, 0) : priority \in {7}}
StreamLists == {<<a>> : a \in FirstStreams} \cup {<<a, b>> : a \in FirstStreams, b \in SecondStreams}

StreamNames(list) == {list[k].name : k \in 1..Len(list)}
StreamNamed(name) == streams[CHOOSE k \in 1..Len(streams) : streams[k].name = name]

NoDelays == [best_case |-> <<>>, worst_case |-> <<>>, multiplication |-> <<>>,
             hops |-> <<>>, stats |-> <<>>, bc |-> 0, wc |-> 0]
NoUtilization == [called |-> FALSE, value |-> FracOfInt(0)]
\* no Calculator was run on the topology before this one
NoEarlier == [passes |-> <<>>, streams |-> <<>>, stats |-> <<>>, saved |-> <<>>, table |-> <<>>]

\* the order of G.nodes and G.edges: the order in which the topology was built
NodeOrder == <<"talker", "node0", "sw1", "sw2", "listener">>
PortOrder == <<<<"talker", "1">>, <<"node0", "1">>, <<"sw1", "1">>, <<"sw1", "2">>,
               <<"sw1", "3">>, <<"sw2", "1">>, <<"sw2", "2">>, <<"listener", "1">>>>
EdgeOrder == <<<<<<"talker", "1">>, <<"sw1", "2">>>>, <<<<"node0", "1">>, <<"sw1", "3">>>>,
               <<<<"sw1", "1">>, <<"sw2", "2">>>>, <<<<"sw2", "1">>, <<"listener", "1">>>>>>

\* a port object of a topology file that gives every optional key (PortJson)
PortObject(name, p) ==
    [name |-> name, expressPriorities |-> p.express_priorities, framePreemption |-> p.frame_preemption,
     gcl |-> p.gcl, gclCycle |-> p.gcl_cycle, gclOpen |-> p.gcl_open, gclOffset |-> p.gcl_offset,
     gclPriorities |-> p.gcl_priorities]

\* the port objects of node n in a topology file: sw1-1 and sw2-1 as given,
\* every other port with its name only
PortObjects(n, b, c) ==
    LET port_names == InOrder(PortOrder, {q \in PortNames : q[1] = n})
    IN  [k \in 1..Len(port_names) |->
            IF port_names[k] = <<"sw1", "1">> THEN PortObject("1", b)
            ELSE IF port_names[k] = <<"sw2", "1">> THEN PortObject("1", c)
            ELSE [name |-> port_names[k][2]]]

\* an edge object of a topology file (EdgeJson)
EdgeObject(e) ==
    [port1 |-> e[1], port2 |-> e[2], linkSpeed |-> EdgeAttrs(e).link_speed,
     maxFrameSize |-> EdgeAttrs(e).max_frame_size, propagationDelay |-> EdgeAttrs(e).propagation_delay,
     transmissionJitter |-> EdgeAttrs(e).transmission_jitter]

\* a stream object of a topology file (StreamJson) without the optional offset
StreamObject(stream) ==
    [name |-> stream.name, cycleTime |-> stream.cycletime,
     transmissionWindow |-> stream.transmission_window, frameSize |-> stream.framesize,
     sender |-> stream.sender, receiver |-> stream.receiver, priority |-> stream.priority]

\* a topology file (TopologyJson): the node objects a of sw1 and sw2, the port
\* objects of sw1-1 (b) and sw2-1 (c), the stream objects
Document(a, b, c, stream_objects) ==
    [name |-> "m",
     nodes |-> [k \in 1..Len(NodeOrder) |->
                   [name |-> NodeOrder[k], ports |-> PortObjects(NodeOrder[k], b, c)]
                   @@ (IF NodeOrder[k] = "sw1" THEN a[1]
                       ELSE IF NodeOrder[k] = "sw2" THEN a[2] ELSE SyncedNodeJson)],
     edges |-> [k \in 1..Len(EdgeOrder) |-> EdgeObject(EdgeOrder[k])],
     streams |-> stream_objects]

\* the streams of the topology files given to the execute entry point
ExecuteFirstStreams == {Stream("stream 1", sender, priority, 30, cycletime, 500) :
                           sender \in {"talker", "node0"}, priority \in {0, 7},
                           cycletime \in {10000, 2000000}}
ExecuteSecondStreams == {Stream("stream 2", "node0", 7, 80, cycletime, 0) : cycletime \in {10000, 1000000}}
ExecuteStreamLists == {<<a>> : a \in ExecuteFirstStreams}
                      \cup {<<a, b>> : a \in ExecuteFirstStreams, b \in ExecuteSecondStreams}

\* the topology files given to the execute entry point
ExecuteDocuments ==
    {Document(a, b, c, [k \in 1..Len(list) |-> StreamObject(list[k])]) :
        a \in SwitchNodeJsons, b \in SwitchPorts, c \in LastPorts, list \in ExecuteStreamLists}

\* the node object named n of a topology file
NodeObjectNamed(topology_json, n) ==
    topology_json.nodes[CHOOSE k \in 1..Len(topology_json.nodes) : topology_json.nodes[k].name = n]

\* Calculator.__init__(topology, streams)
CalculatorInit ==
    /\ stream_paths = [n \in StreamNames(streams) |-> shortest_path(StreamNamed(n).sender)]
    /\ bandwidth_per_stream_and_node = <<>>
    /\ stream_statistics = [n \in StreamNames(streams) |-> StreamStatisticsInit(stream_paths[n], 1)]
    /\ saved_multiplications = [n \in StreamNames(streams) |-> <<>>]
    /\ delays = [n \in StreamNames(streams) |-> NoDelays]
    /\ utilization = NoUtilization

\* no document written or read, no exception raised
NoJson ==
    /\ document = <<>>
    /\ exported = <<>>
    /\ raised = NoError

\* a Topology built with add_node, add_port_to_node, add_edge and add_streams,
\* and Calculator.__init__
InitCalculator ==
    /\ topology_info = [name |-> "m", description |-> ""]
    /\ node_json \in {[n \in NodeNames |-> IF n = "sw1" THEN a[1] ELSE IF n = "sw2" THEN a[2]
                                           ELSE SyncedNodeJson] : a \in SwitchNodeJsons}
    /\ nodes = [n \in NodeNames |-> node_from_json(node_json[n])]
    /\ ports \in {[q \in PortNames |-> IF q = <<"sw1", "1">> THEN b
                                       ELSE IF q = <<"sw2", "1">> THEN c
                                       ELSE DefaultPort] : b \in SwitchPorts, c \in LastPorts}
    /\ edges = [e \in EdgeNames |-> EdgeAttrs(e)]
    /\ streams \in StreamLists
    /\ NoJson
    /\ stream_paths = [n \in StreamNames(streams) |-> shortest_path(StreamNamed(n).sender)]
    /\ bandwidth_per_stream_and_node = <<>>
    /\ stream_statistics = [n \in StreamNames(streams) |-> StreamStatisticsInit(stream_paths[n], 1)]
    /\ saved_multiplications = [n \in StreamNames(streams) |-> <<>>]
    /\ delays = [n \in StreamNames(streams) |-> NoDelays]
    /\ utilization = NoUtilization

Init ==
    /\ InitCalculator
    /\ earlier = NoEarlier
    /\ passes = <<>>
    /\ pc = "api"
    /\ budget = MaxReinflations

CalculatorState == [stats |-> stream_statistics, saved |-> saved_multiplications, delays |-> delays]

\* Calculator.calculate_delays()
CalculateDelays ==
    /\ pc = "api"
    /\ \E r \in {calculate_delays(CalculatorState, 1)} :
           /\ stream_statistics' = r.stats
           /\ saved_multiplications' = r.saved
           /\ delays' = r.delays
    /\ UNCHANGED <<topology_vars, json_vars, earlier, bandwidth_per_stream_and_node, utilization, passes, pc, budget>>

\* Calculator.recalculate_bandwidth()
RecalculateBandwidth ==
    /\ pc = "api"
    /\ budget > 0
    /\ budget' = budget - 1
    /\ \E table \in {recalculate_bandwidth(bandwidth_per_stream_and_node, 1)} :
           /\ \A k \in DOMAIN table : table[k] <= MaxBandwidth
           /\ bandwidth_per_stream_and_node' = table
    /\ passes' = Append(passes, "reinflate")
    /\ UNCHANGED <<topology_vars, json_vars, earlier, stream_statistics, saved_multiplications, delays,
                   utilization, pc>>

\* Calculator.set_bandwidth(stream, node_name, bandwidth)
SetBandwidth ==
    /\ pc = "api"
    /\ budget > 0
    /\ budget' = budget - 1
    /\ \E k \in 1..Len(streams), bandwidth \in {20, 130} :
          bandwidth_per_stream_and_node' =
              set_bandwidth(bandwidth_per_stream_and_node, streams[k], <<"sw1", "1">>, bandwidth)
    /\ passes' = Append(passes, "set_bandwidth")
    /\ UNCHANGED <<topology_vars, json_vars, earlier, stream_statistics, saved_multiplications, delays,
                   utilization, pc>>

\* Calculator.get_resource_utilization()
GetResourceUtilization ==
    /\ pc = "api"
    /\ \E r \in {get_resource_utilization(CalculatorState)} :
           /\ stream_statistics' = r.stats
           /\ saved_multiplications' = r.saved
           /\ delays' = r.delays
           /\ utilization' = [called |-> TRUE, value |-> r.value]
    /\ UNCHANGED <<topology_vars, json_vars, earlier, bandwidth_per_stream_and_node, passes, pc, budget>>

Next == CalculateDelays \/ RecalculateBandwidth \/ SetBandwidth \/ GetResourceUtilization

Spec == Init /\ [][Next]_vars

-----------------------------------------------------------------------------
(* execute_jitter_delay_model.py: execute_latency_jitter_model_examples *)

\* lines 22-38: json.load, Topology.from_json, Calculator(...)
InitExecute ==
    /\ document \in ExecuteDocuments
    /\ \E t \in {from_json(document)} :
           /\ ~t.error.raised
           /\ topology_info = [name |-> t.name, description |-> t.description]
           /\ nodes = t.nodes
           /\ ports = t.ports
           /\ edges = t.edges
           /\ streams = t.streams
    /\ node_json = [n \in NodeNames |-> NodeObjectNamed(document, n)]
    /\ exported = <<>>
    /\ raised = NoError
    /\ earlier = NoEarlier
    /\ CalculatorInit
    /\ passes = <<>>
    /\ pc = "calculate_delays"
    /\ budget = 0

\* line 39: calculator.calculate_delays()
ExecuteCalculateDelays ==
    /\ pc = "calculate_delays"
    /\ \E r \in {calculate_delays(CalculatorState, 1)} :
           /\ stream_statistics' = r.stats
           /\ saved_multiplications' = r.saved
           /\ delays' = r.delays
    /\ passes' = Append(passes, "propagate")
    /\ pc' = "get_resource_utilization"
    /\ UNCHANGED <<topology_vars, json_vars, earlier, bandwidth_per_stream_and_node, utilization, budget>>

\* line 40: calculator.get_resource_utilization()
ExecuteGetResourceUtilization ==
    /\ pc = "get_resource_utilization"
    /\ \E r \in {get_resource_utilization(CalculatorState)} :
           /\ stream_statistics' = r.stats
           /\ saved_multiplications' = r.saved
           /\ delays' = r.delays
           /\ utilization' = [called |-> TRUE, value |-> r.value]
    /\ passes' = passes \o <<"propagate", "estimate">>
    /\ pc' = "export_json"
    /\ UNCHANGED <<topology_vars, json_vars, earlier, bandwidth_per_stream_and_node, budget>>

\* calculator.export_json(...): nothing of the Calculator changes
ExecuteExportJson ==
    /\ pc = "export_json"
    /\ pc' = "done"
    /\ UNCHANGED <<topology_vars, json_vars, earlier, bandwidth_per_stream_and_node, stream_statistics,
                   saved_multiplications, delays, utilization, passes, budget>>

NextExecute == ExecuteCalculateDelays \/ ExecuteGetResourceUtilization \/ ExecuteExportJson

SpecExecute == InitExecute /\ [][NextExecute]_vars

-----------------------------------------------------------------------------
(* topology.py, stream.py: a Topology written with to_json and read back with
   from_json, and topology files read with from_json *)

\* to_json calls per run
MaxExports == 2

\* the Topology object: its name, description, graph and streams
TopologyObject ==
    [name |-> topology_info.name, description |-> topology_info.description,
     nodes |-> nodes, ports |-> ports, edges |-> edges, streams |-> streams]

\* the NodeAttrs add_node stores
ApiNode(sync_domain, sync_jitter) ==
    [processing_delay |-> 1000, processing_jitter |-> 50, sync_domain |-> sync_domain,
     sync_jitter |-> sync_jitter]

\* a stream object of a topology file with every key
FullStreamObject ==
    [name |-> "stream 1", cycleTime |-> 10000, offset |-> 100, transmissionWindow |-> 500,
     frameSize |-> 30, sender |-> "talker", receiver |-> "listener", priority |-> 7]

\* the dict without one key
Without(obj, key) == [k \in DOMAIN obj \ {key} |-> obj[k]]

\* stream objects as a topology file may give them: one key missing, a sender or
\* receiver that is no forwarding node of the file, a priority in or out of 0..7
StreamObjects ==
    {FullStreamObject}
    \cup {Without(FullStreamObject, key) : key \in DOMAIN FullStreamObject}
    \cup {[FullStreamObject EXCEPT !.sender = x] : x \in {"ghost", "sw1-1"}}
    \cup {[FullStreamObject EXCEPT !.receiver = x] : x \in {"ghost", "node0"}}
    \cup {[FullStreamObject EXCEPT !.priority = x] : x \in {-1, 0, 8}}

\* the topology files read with from_json: valid nodes and edges, one or two
\* stream objects
UserDocuments ==
    {Document(<<SyncedNodeJson, SyncedNodeJson>>, DefaultPort, DefaultPort, list) :
        list \in {<<x>> : x \in StreamObjects} \cup {<<x, y>> : x \in StreamObjects, y \in StreamObjects}}

\* no Calculator in these runs
NoCalculator ==
    /\ node_json = <<>>
    /\ stream_paths = <<>>
    /\ bandwidth_per_stream_and_node = <<>>
    /\ stream_statistics = <<>>
    /\ saved_multiplications = <<>>
    /\ delays = <<>>
    /\ utilization = NoUtilization
    /\ passes = <<>>
    /\ budget = 0

\* a Topology built with add_node, add_port_to_node, add_edge and add_streams
InitBuilt ==
    /\ topology_info = [name |-> "m", description |-> ""]
    /\ nodes \in {[n \in NodeNames |-> IF n = "sw1" THEN ApiNode(d, j)
                                       ELSE ApiNode(PyStr("1"), DEFAULT_SYNC_JITTER)] :
                      d \in {PyNone, PyStr("1")}, j \in {DEFAULT_SYNC_JITTER, 40}}
    /\ ports \in {[q \in PortNames |-> IF q = <<"sw1", "1">> THEN b
                                       ELSE IF q = <<"sw2", "1">> THEN c
                                       ELSE DefaultPort] : b \in SwitchPorts, c \in LastPorts}
    /\ edges = [e \in EdgeNames |-> EdgeAttrs(e)]
    /\ streams \in StreamLists
    /\ NoJson
    /\ pc = "built"

\* a topology file loaded with json.load, no Topology yet
InitDocument ==
    /\ topology_info = [name |-> "", description |-> ""]
    /\ nodes = <<>>
    /\ ports = <<>>
    /\ edges = <<>>
    /\ streams = <<>>
    /\ document \in UserDocuments
    /\ exported = <<>>
    /\ raised = NoError
    /\ pc = "document"

InitJson == NoCalculator /\ earlier = NoEarlier /\ (InitBuilt \/ InitDocument)

\* Topology.to_json()
ToJson ==
    /\ pc \in {"built", "parsed"}
    /\ Len(exported) < MaxExports
    /\ \E topology_json \in {to_json(TopologyObject, NodeOrder, PortOrder, EdgeOrder)} :
           /\ document' = topology_json
           /\ exported' = Append(exported, topology_json)
    /\ pc' = "exported"
    /\ UNCHANGED <<topology_vars, topology_info, raised, earlier, bandwidth_per_stream_and_node,
                   stream_statistics, saved_multiplications, delays, utilization, passes, budget>>

\* Topology.from_json(document): the Topology it returns, or the exception it
\* raises and no Topology
FromJson ==
    /\ pc \in {"exported", "document"}
    /\ \E t \in {from_json(document)} :
           /\ raised' = t.error
           /\ topology_info' = [name |-> t.name, description |-> t.description]
           /\ nodes' = t.nodes
           /\ ports' = t.ports
           /\ edges' = t.edges
           /\ streams' = t.streams
           /\ pc' = IF t.error.raised THEN "failed" ELSE "parsed"
    /\ UNCHANGED <<node_json, stream_paths, document, exported, earlier, bandwidth_per_stream_and_node,
                   stream_statistics, saved_multiplications, delays, utilization, passes, budget>>

NextJson == ToJson \/ FromJson

SpecJson == InitJson /\ [][NextJson]_vars

-----------------------------------------------------------------------------
(* calculator.py: the iteration of calculate_delays() and recalculate_bandwidth(),
   and a second Calculator on the same topology with the stream list reordered *)

\* the full passes (calculate_delays, recalculate_bandwidth) of one Calculator
MaxPasses == 3

\* an egress port of sw1 with a low express priority, next to the ports above
PassSwitchPorts ==
    SwitchPorts \cup {Port(FALSE, DEFAULT_GCL_CYCLE, DEFAULT_GCL_OPEN, DEFAULT_GCL_OFFSET, 0..7, TRUE, {0}),
                      Port(TRUE, 10000, 4000, 5000, {6, 7}, TRUE, {6})}

PassFirstStreams ==
    {Stream("stream 1", sender, priority, 30, cycletime, 500) :
        sender \in {"talker", "node0"}, priority \in {0, 7}, cycletime \in {10000, 1000000}}
PassSecondStreams ==
    {Stream("stream 2", "node0", priority, 80, cycletime, 0) :
        priority \in {6, 7}, cycletime \in {10000, 1000000}}
PassStreamLists ==
    {<<a>> : a \in PassFirstStreams} \cup {<<a, b>> : a \in PassFirstStreams, b \in PassSecondStreams}

\* a Topology built with the API and Calculator(topology, streams)
InitPasses ==
    /\ topology_info = [name |-> "m", description |-> ""]
    /\ node_json \in {[n \in NodeNames |-> IF n = "sw1" THEN a[1] ELSE IF n = "sw2" THEN a[2]
                                           ELSE SyncedNodeJson] :
                          a \in {<<NodeJson(TRUE, "1"), NodeJson(TRUE, "1")>>,
                                 <<NodeJson(FALSE, ""), NodeJson(FALSE, "")>>}}
    /\ nodes = [n \in NodeNames |-> node_from_json(node_json[n])]
    /\ ports \in {[q \in PortNames |-> IF q = <<"sw1", "1">> THEN b
                                       ELSE IF q = <<"sw2", "1">> THEN c
                                       ELSE DefaultPort] : b \in PassSwitchPorts, c \in LastPorts}
    /\ edges = [e \in EdgeNames |-> EdgeAttrs(e)]
    /\ streams \in PassStreamLists
    /\ NoJson
    /\ earlier = NoEarlier
    /\ CalculatorInit
    /\ passes = <<>>
    /\ pc = "propagate"
    /\ budget = MaxPasses

\* calculator.calculate_delays() of a full pass
PassCalculateDelays ==
    /\ pc = "propagate"
    /\ budget > 0
    /\ \E r \in {calculate_delays(CalculatorState, 1)} :
           /\ stream_statistics' = r.stats
           /\ saved_multiplications' = r.saved
           /\ delays' = r.delays
    /\ passes' = Append(passes, "propagate")
    /\ pc' = "reinflate"
    /\ UNCHANGED <<topology_vars, json_vars, earlier, bandwidth_per_stream_and_node, utilization, budget>>

\* calculator.recalculate_bandwidth() of a full pass
PassRecalculateBandwidth ==
    /\ pc = "reinflate"
    /\ \E table \in {recalculate_bandwidth(bandwidth_per_stream_and_node, 1)} :
           /\ \A k \in DOMAIN table : table[k] <= MaxBandwidth
           /\ bandwidth_per_stream_and_node' = table
    /\ passes' = Append(passes, "reinflate")
    /\ pc' = "propagate"
    /\ budget' = budget - 1
    /\ UNCHANGED <<topology_vars, json_vars, earlier, stream_statistics, saved_multiplications,
                   delays, utilization>>

\* Calculator(topology, streams) once more, the stream list in another order;
\* what the first Calculator computed is kept for comparison
NewCalculator ==
    /\ pc = "propagate"
    /\ passes # <<>>
    /\ earlier = NoEarlier
    /\ \E order \in Permutations(1..Len(streams)) :
           /\ order # [k \in 1..Len(streams) |-> k]
           /\ streams' = [k \in 1..Len(streams) |-> streams[order[k]]]
    /\ earlier' = [passes |-> passes, streams |-> streams, stats |-> stream_statistics,
                   saved |-> saved_multiplications, table |-> bandwidth_per_stream_and_node]
    /\ bandwidth_per_stream_and_node' = <<>>
    /\ stream_statistics' = [n \in DOMAIN stream_paths |-> StreamStatisticsInit(stream_paths[n], 1)]
    /\ saved_multiplications' = [n \in DOMAIN stream_paths |-> <<>>]
    /\ delays' = [n \in DOMAIN stream_paths |-> NoDelays]
    /\ utilization' = NoUtilization
    /\ passes' = <<>>
    /\ budget' = MaxPasses
    /\ UNCHANGED <<node_json, nodes, ports, edges, stream_paths, json_vars, pc>>

NextPasses == PassCalculateDelays \/ PassRecalculateBandwidth \/ NewCalculator

SpecPasses == InitPasses /\ [][NextPasses]_vars

-----------------------------------------------------------------------------
(* calculator.py: the hops of calculate_delays_for_stream on topologies whose
   gates open before, around and after the arrival of the stream *)

\* the egress port of sw1: the gate closes at 3000, 3300, 9000, 7000 or 9000
HopSwitchPorts ==
    {DefaultPort,
     Port(TRUE, 20000, 2000, 1000, {0, 7}, FALSE, {}),
     Port(TRUE, 10000, 2300, 1000, {7}, TRUE, {7}),
     Port(TRUE, 10000, 4000, 5000, {7}, TRUE, {7}),
     Port(TRUE, 10000, 4000, 3000, {7}, FALSE, {}),
     Port(TRUE, 10000, 8000, 1000, 0..7, FALSE, {})}

\* the sync domains of sw1 and sw2 (talker, node0 and listener are in domain "1")
HopDomains == {<<"1", "1">>, <<"2", "2">>, <<"1", "2">>, <<"", "">>}

\* processingDelay and processingJitter of sw1 and sw2
HopProcessing == {<<1000, 50>>, <<50, 50>>}

HopNodeJson(domain, processing) ==
    [processingDelay |-> processing[1], processingJitter |-> processing[2], syncJitter |-> 30,
     syncDomain |-> PyStr(domain)]

HopFirstStreams ==
    {[Stream("stream 1", "talker", priority, framesize, 10000, 500) EXCEPT !.offset = offset] :
        priority \in {0, 7}, framesize \in {30, 400}, offset \in {0, 3000}}
HopStreamLists ==
    {<<a>> : a \in HopFirstStreams}
    \cup {<<a, Stream("stream 2", "node0", 7, 80, 10000, 0)>> : a \in HopFirstStreams}

\* a Topology built with the API and Calculator(topology, streams)
InitHops ==
    /\ topology_info = [name |-> "m", description |-> ""]
    /\ node_json \in {[n \in NodeNames |-> IF n = "sw1" THEN HopNodeJson(a[1], b)
                                           ELSE IF n = "sw2" THEN HopNodeJson(a[2], b)
                                           ELSE SyncedNodeJson] :
                          a \in HopDomains, b \in HopProcessing}
    /\ nodes = [n \in NodeNames |-> node_from_json(node_json[n])]
    /\ ports \in {[q \in PortNames |-> IF q = <<"sw1", "1">> THEN b
                                       ELSE IF q = <<"sw2", "1">> THEN c
                                       ELSE DefaultPort] : b \in HopSwitchPorts, c \in LastPorts}
    /\ edges = [e \in EdgeNames |-> EdgeAttrs(e)]
    /\ streams \in HopStreamLists
    /\ NoJson
    /\ earlier = NoEarlier
    /\ CalculatorInit
    /\ passes = <<>>
    /\ pc = "propagate"
    /\ budget = MaxPasses

SpecHops == InitHops /\ [][NextPasses]_vars

-----------------------------------------------------------------------------
(* calculator.py: a Calculator whose calculate_delays() is repeated and whose
   get_resource_utilization() is called between the passes, and a second
   Calculator on a topology that differs in attributes of a disabled gate or of
   disabled frame preemption *)

\* the full passes of each of the two Calculators
VariantPasses == 2

\* the egress port of sw1
VariantSwitchPorts ==
    {DefaultPort,
     Port(FALSE, DEFAULT_GCL_CYCLE, DEFAULT_GCL_OPEN, DEFAULT_GCL_OFFSET, 0..7, TRUE, {7}),
     Port(TRUE, 10000, 4000, 5000, {6, 7}, TRUE, {6})}

VariantStreamLists ==
    {<<Stream("stream 1", "talker", priority, 30, 10000, 500)>> : priority \in {0, 7}}
    \cup {<<Stream("stream 1", "talker", priority, 30, 10000, 500), b>> :
             priority \in {0, 7}, b \in PassSecondStreams}

\* the ports whose attributes the second topology changes
VariantPorts == {<<"sw1", "1">>, <<"sw2", "1">>}

\* gcl_cycle, gcl_open and gcl_offset of a port of the second topology
VariantGateValues == {<<5000, 2000, 1000>>, <<DEFAULT_GCL_CYCLE, 4000, 0>>}

\* express_priorities of a port of the second topology
VariantExpressPriorities == {{6}, {7}}

\* a Topology built with the API and Calculator(topology, streams)
InitVariants ==
    /\ topology_info = [name |-> "m", description |-> ""]
    /\ node_json = [n \in NodeNames |-> SyncedNodeJson]
    /\ nodes = [n \in NodeNames |-> node_from_json(node_json[n])]
    /\ ports \in {[q \in PortNames |-> IF q = <<"sw1", "1">> THEN b
                                       ELSE IF q = <<"sw2", "1">> THEN c
                                       ELSE DefaultPort] : b \in VariantSwitchPorts, c \in LastPorts}
    /\ edges = [e \in EdgeNames |-> EdgeAttrs(e)]
    /\ streams \in VariantStreamLists
    /\ NoJson
    /\ earlier = NoEarlier
    /\ CalculatorInit
    /\ passes = <<>>
    /\ pc = "propagate"
    /\ budget = VariantPasses

\* the second Calculator is called as the first one was
Follows(call) ==
    \/ earlier = NoEarlier
    \/ Len(passes) < Len(earlier.passes) /\ earlier.passes[Len(passes) + 1] = call

\* calculator.calculate_delays() once more, without a reinflation in between
PassCalculateDelaysAgain ==
    /\ pc = "reinflate"
    /\ Follows("propagate")
    /\ Last(passes) = "propagate"
    /\ IF Len(passes) = 1 THEN TRUE ELSE passes[Len(passes) - 1] # "propagate"
    /\ \E r \in {calculate_delays(CalculatorState, 1)} :
           /\ stream_statistics' = r.stats
           /\ saved_multiplications' = r.saved
           /\ delays' = r.delays
    /\ passes' = Append(passes, "propagate")
    /\ UNCHANGED <<topology_vars, json_vars, earlier, bandwidth_per_stream_and_node, utilization,
                   pc, budget>>

\* calculator.get_resource_utilization() after a propagation
PassGetResourceUtilization ==
    /\ pc = "reinflate"
    /\ Follows("utilization")
    /\ ~utilization.called
    /\ \E r \in {get_resource_utilization(CalculatorState)} :
           /\ stream_statistics' = r.stats
           /\ saved_multiplications' = r.saved
           /\ delays' = r.delays
           /\ utilization' = [called |-> TRUE, value |-> r.value]
    /\ passes' = Append(passes, "utilization")
    /\ UNCHANGED <<topology_vars, json_vars, earlier, bandwidth_per_stream_and_node, pc, budget>>

\* what the Calculator computed, kept for comparison with a second topology
Computed ==
    [passes |-> passes, streams |-> streams, stats |-> stream_statistics,
     saved |-> saved_multiplications, table |-> bandwidth_per_stream_and_node,
     ports |-> ports, delays |-> delays, utilization |-> utilization]

\* Calculator(topology, streams) on the second topology
VariantCalculator ==
    /\ earlier' = Computed
    /\ bandwidth_per_stream_and_node' = <<>>
    /\ stream_statistics' = [n \in DOMAIN stream_paths |-> StreamStatisticsInit(stream_paths[n], 1)]
    /\ saved_multiplications' = [n \in DOMAIN stream_paths |-> <<>>]
    /\ delays' = [n \in DOMAIN stream_paths |-> NoDelays]
    /\ utilization' = NoUtilization
    /\ passes' = <<>>
    /\ budget' = VariantPasses
    /\ UNCHANGED <<node_json, nodes, edges, streams, stream_paths, json_vars, pc>>

\* the same topology built with other values of gcl_cycle, gcl_open and
\* gcl_offset at a port whose gate is disabled
DisabledGateVariant ==
    /\ pc = "propagate"
    /\ budget = 0
    /\ earlier = NoEarlier
    /\ \E q \in VariantPorts, v \in VariantGateValues :
           /\ ~ports[q].gcl
           /\ <<ports[q].gcl_cycle, ports[q].gcl_open, ports[q].gcl_offset>> # v
           /\ ports' = [ports EXCEPT ![q].gcl_cycle = v[1], ![q].gcl_open = v[2],
                                     ![q].gcl_offset = v[3]]
    /\ VariantCalculator

\* the same topology built with other express_priorities at a port whose frame
\* preemption is disabled
DisabledExpressVariant ==
    /\ pc = "propagate"
    /\ budget = 0
    /\ earlier = NoEarlier
    /\ \E q \in VariantPorts, express_priorities \in VariantExpressPriorities :
           /\ ~ports[q].frame_preemption
           /\ ports[q].express_priorities # express_priorities
           /\ ports' = [ports EXCEPT ![q].express_priorities = express_priorities]
    /\ VariantCalculator

NextVariants ==
    \/ PassCalculateDelays
    \/ PassRecalculateBandwidth
    \/ PassCalculateDelaysAgain
    \/ PassGetResourceUtilization
    \/ DisabledGateVariant
    \/ DisabledExpressVariant

SpecVariants == InitVariants /\ [][NextVariants]_vars

-----------------------------------------------------------------------------
(* Properties of the statistics, the summarized values and the bandwidth table *)

\* calculate_delays_for_stream has run for stream n
Propagated(n) == delays[n].best_case # <<>>

\* C1: after any sequence of propagation and reinflation passes, every per-port
\* statistic of every stream has best_case <= worst_case
C1_BestLeWorst ==
    \A n \in DOMAIN stream_statistics : \A k \in 1..Len(stream_statistics[n]) :
        stream_statistics[n][k].best_case <= stream_statistics[n][k].worst_case

\* C2: for every stream a propagation pass has handled, the summarized values it
\* returned satisfy summarized_worst_case >= summarized_best_case >= 0
C2_SummarizedOrdered ==
    \A n \in DOMAIN delays :
        Propagated(n) => (delays[n].wc >= delays[n].bc /\ delays[n].bc >= 0)

\* the (stream, node) pairs get_bandwidth is asked about: every port, and None
BandwidthNodes == PortNames \cup {NoneName}

\* C3: over every step (set_bandwidth, recalculate_bandwidth, propagation,
\* estimate) get_bandwidth(stream, node) does not decrease and is never below
\* stream.framesize, and an absent entry reads as the declared frame size
C3_BandwidthMonotone ==
    [][\A k \in 1..Len(streams) : \A q \in BandwidthNodes :
          /\ get_bandwidth(bandwidth_per_stream_and_node', streams[k], q)
                >= get_bandwidth(bandwidth_per_stream_and_node, streams[k], q)
          /\ get_bandwidth(bandwidth_per_stream_and_node, streams[k], q) >= streams[k].framesize
          /\ <<streams[k].name, q>> \notin DOMAIN bandwidth_per_stream_and_node'
                => get_bandwidth(bandwidth_per_stream_and_node', streams[k], q) = streams[k].framesize
      ]_vars

\* a reinflation pass has raised the entry of stream 1 at sw1-1 above 130, and the
\* set_bandwidth call after it (with 20 or 130) has left the entry as it was
C3_Raised ==
    /\ passes = <<"reinflate", "set_bandwidth">>
    /\ get_bandwidth(bandwidth_per_stream_and_node, streams[1], <<"sw1", "1">>) > 130

\* C4: a run of the execute entry point makes its passes in the order propagate,
\* reinflate, propagate, reinflate, propagate, estimate, and the utilization
\* estimate is never produced before two reinflation passes have run
C4_PassOrder ==
    /\ pc = "done" =>
          passes = <<"propagate", "reinflate", "propagate", "reinflate", "propagate", "estimate">>
    /\ utilization.called =>
          Cardinality({k \in 1..Len(passes) : passes[k] = "reinflate"}) >= 2

\* what get_resource_utilization_for_stream computes for stream n from the
\* statistics and multiplications stored
Occupancy(n) ==
    get_resource_utilization_for_stream(StreamNamed(n), stream_statistics[n],
                                        saved_multiplications[n])

\* C5: after get_resource_utilization() returned, every tx-port statistic of every
\* stream holds the occupancy computed for that port, and the value returned is
\* the maximum occupancy over all tx ports of all streams
C5_UtilizationOfEveryStream ==
    utilization.called =>
        /\ \A n \in DOMAIN stream_statistics : \A k \in 1..Len(stream_statistics[n]) :
              stream_statistics[n][k].direction = "tx" =>
                  stream_statistics[n][k].resource_utilization
                      = Occupancy(n).stats[k].resource_utilization
        /\ \A n \in DOMAIN stream_statistics :
              ~FracLess(utilization.value, FracMaxOf(Occupancy(n).occupancies))
        /\ \E n \in DOMAIN stream_statistics :
              utilization.value = FracMaxOf(Occupancy(n).occupancies)

\* C6: after a propagation pass get_summarized_best_case() equals min(cum_start,
\* cum_end) of the penultimate best-trace entry, the value calculate_delays_for_stream
\* returned, and get_summarized_worst_case() equals max(cum_start, cum_end) of the
\* penultimate worst-trace entry
C6_SummarizedIsReturned ==
    \A n \in DOMAIN delays :
        Propagated(n) =>
            /\ get_summarized_best_case(stream_statistics[n], NoStop)
                  = Min(Prev(delays[n].best_case).cum_start, Prev(delays[n].best_case).cum_end)
            /\ get_summarized_best_case(stream_statistics[n], NoStop) = delays[n].bc
            /\ get_summarized_worst_case(stream_statistics[n], NoStop)
                  = Max(Prev(delays[n].worst_case).cum_start, Prev(delays[n].worst_case).cum_end)
            /\ get_summarized_worst_case(stream_statistics[n], NoStop) = delays[n].wc

\* stream n has no crossing stream on any port of its path and no port of its
\* path has a gate enabled
Unobstructed(n) ==
    \A i \in 1..Len(stream_paths[n]) :
        is_port(stream_paths[n][i]) =>
            /\ get_crossing_streams(n, stream_paths[n][i]) = <<>>
            /\ ~ports[stream_paths[n][i]].gcl

\* the forwarding hops of stream n: the tx ports of its path whose delays the
\* propagator accumulates (it drops those of the talker)
ForwardingHops(n) ==
    {i \in 1..Len(stream_paths[n]) :
        /\ is_tx_port(stream_paths[n][i], stream_paths[n])
        /\ ~ContainsTalker(stream_paths[n][i])}

\* dproc -/+ jproc + dprop + T(framesize+20, L) -/+ jtx (+ blocking) of the hop at
\* path index i, sign = -1 for the best case and 1 for the worst case
ClosedFormHop(n, i, sign) ==
    LET path == stream_paths[n]
        stream == StreamNamed(n)
        node_data == nodes[path[i][1]]
        edge == get_edge_data(path[i], path[i + 1])
    IN  node_data.processing_delay + sign * node_data.processing_jitter
        + edge.propagation_delay
        + get_transmission_duration(stream.framesize + L1Overhead, edge.link_speed)
        + sign * edge.transmission_jitter
        + (IF sign = 1
           THEN get_transmission_duration(BlockingBytes(stream, ports[path[i]], edge),
                                          edge.link_speed)
           ELSE 0)

ClosedForm(n, sign) ==
    Sum([i \in 1..Len(stream_paths[n]) |->
            IF i \in ForwardingHops(n) THEN ClosedFormHop(n, i, sign) ELSE 0])

\* C7: for every stream without crossing streams and without a gate-enabled port
\* on its path, the summarized best case is the sum over the forwarding hops of
\* dproc - jproc + dprop + T(framesize+20, L) - jtx and the summarized worst case
\* the sum of dproc + jproc + dprop + T(framesize+20, L) + jtx + blocking
C7_ClosedForm ==
    \A n \in DOMAIN delays :
        (Propagated(n) /\ Unobstructed(n)) =>
            /\ delays[n].bc = ClosedForm(n, -1)
            /\ delays[n].wc = ClosedForm(n, 1)

\* index in the path of stream n of the tx port owned by the sender: the first tx
\* port of the path
SenderTxPort(n) ==
    CHOOSE i \in 1..Len(stream_paths[n]) :
        /\ is_tx_port(stream_paths[n][i], stream_paths[n])
        /\ \A j \in 1..(i - 1) : ~is_tx_port(stream_paths[n][j], stream_paths[n])

\* C8: at the tx port owned by the stream's sender node the propagator uses
\* d_blck = 0 and d_interference = 0, whichever streams cross that port
C8_SenderPortUnobstructed ==
    \A n \in DOMAIN delays :
        Propagated(n) =>
            /\ delays[n].hops[SenderTxPort(n)].d_blck = 0
            /\ delays[n].hops[SenderTxPort(n)].d_interference = 0

\* the tx ports of the path of stream n that are not the talker's, have frame
\* preemption enabled and hold the stream's priority in their express priorities
ExpressHops(n) ==
    {i \in 1..Len(stream_paths[n]) :
        /\ is_tx_port(stream_paths[n][i], stream_paths[n])
        /\ ~ContainsTalker(stream_paths[n][i])
        /\ ports[stream_paths[n][i]].frame_preemption
        /\ StreamNamed(n).priority \in ports[stream_paths[n][i]].express_priorities}

\* a priority the gate of the port at path index i controls (every priority when
\* the gate is disabled) lies strictly below the priority of stream n
LowerPriorityAt(n, i) ==
    \E p \in (IF ports[stream_paths[n][i]].gcl
              THEN ports[stream_paths[n][i]].gcl_priorities ELSE 0..7) :
        p < StreamNamed(n).priority

LinkSpeedAt(n, i) == get_edge_data(stream_paths[n][i], stream_paths[n][i + 1]).link_speed

\* C9 as stated: at every non-talker tx port with frame preemption whose express
\* priorities contain the stream's priority the blocking bytes are 143 and
\* d_blck = T(143, L), whatever maxFrameSize and the gate settings are
C9_ExpressBlockingAlways ==
    \A n \in DOMAIN delays :
        Propagated(n) =>
            \A i \in ExpressHops(n) :
                /\ delays[n].hops[i].blck_bytes = 143
                /\ delays[n].hops[i].d_blck = get_transmission_duration(143, LinkSpeedAt(n, i))

\* C9, amended: at such a port the blocking bytes are 143 and d_blck = T(143, L),
\* whatever maxFrameSize is, when a gate-controlled priority (every priority when
\* the gate is disabled) lies strictly below the stream's priority; otherwise the
\* blocking bytes and d_blck are 0
C9_ExpressBlocking ==
    \A n \in DOMAIN delays :
        Propagated(n) =>
            \A i \in ExpressHops(n) :
                IF LowerPriorityAt(n, i)
                THEN /\ delays[n].hops[i].blck_bytes = 143
                     /\ delays[n].hops[i].d_blck
                            = get_transmission_duration(143, LinkSpeedAt(n, i))
                ELSE /\ delays[n].hops[i].blck_bytes = 0
                     /\ delays[n].hops[i].d_blck = 0

\* a propagated stream with an express hop blocked by 143 bytes and another
\* express hop, behind a gate that controls no lower priority, blocked by none
C9_BothCases ==
    \E n \in DOMAIN delays :
        /\ Propagated(n)
        /\ \E i \in ExpressHops(n) :
              LowerPriorityAt(n, i) /\ delays[n].hops[i].d_blck = 1144
        /\ \E i \in ExpressHops(n) :
              (~LowerPriorityAt(n, i)) /\ delays[n].hops[i].blck_bytes = 0

\* the JSON objects of nodes a and b both declare the same non-empty syncDomain
SameDeclaredDomain(a, b) ==
    /\ Has(node_json[a], "syncDomain") /\ Has(node_json[b], "syncDomain")
    /\ node_json[a].syncDomain # PyStr("")
    /\ node_json[a].syncDomain = node_json[b].syncDomain

\* C10: two forwarding nodes are reported synchronized iff both declare the same
\* non-empty sync domain; a node without a syncDomain key, or with the empty
\* string, is synchronized with no other node
C10_SynchronizedIff ==
    \A a \in NodeNames : \A b \in NodeNames \ {a} :
        are_synchronized(<<a>>, <<b>>) <=> SameDeclaredDomain(a, b)

-----------------------------------------------------------------------------
(* Properties of the JSON forms *)

\* C11: a Topology written by to_json, read back by from_json and written
\* again gives the same document: every node, port, edge and stream attribute
\* survives the round trip
C11_RoundTrip == Len(exported) >= 2 => exported[2] = exported[1]

\* the streams of the Topology name existing nodes and have a priority in 0..7
WellFormedStreams ==
    \A k \in 1..Len(streams) :
        /\ streams[k].sender \in DOMAIN nodes
        /\ streams[k].receiver \in DOMAIN nodes
        /\ streams[k].priority \in 0..7

\* C12: reading back the document to_json wrote yields, for every stream with
\* existing sender and receiver and a priority in 0..7, a stream with the same
\* name, cycle time, offset, transmission window, frame size, sender, receiver
\* and priority
C12_StreamRoundTrip ==
    [][(pc = "exported" /\ WellFormedStreams) => (pc' = "parsed" /\ streams' = streams)]_vars

\* a round trip has returned two streams with different windows and priorities
C12_TwoStreamsBack ==
    /\ pc = "parsed"
    /\ Len(exported) = 1
    /\ Len(streams) = 2
    /\ streams[1].transmission_window = 500 /\ streams[1].priority = 0
    /\ streams[2].transmission_window = 0 /\ streams[2].priority = 7

\* the names of the forwarding nodes of the document
DocumentNodes == {document.nodes[k].name : k \in 1..Len(document.nodes)}

\* a stream object the parser has to reject: a required key is missing, the
\* sender or the receiver is no forwarding node of the document, or the
\* priority is outside 0..7
Rejected(stream) ==
    \/ \E key \in {"name", "cycleTime", "frameSize", "sender", "receiver"} : ~Has(stream, key)
    \/ Has(stream, "sender") /\ stream.sender \notin DocumentNodes
    \/ Has(stream, "receiver") /\ stream.receiver \notin DocumentNodes
    \/ Has(stream, "priority") /\ stream.priority \notin 0..7

\* from_json has read a topology file
FileRead == pc \in {"parsed", "failed"} /\ exported = <<>>

\* C13: Stream.from_json raises TopologyParsingError and returns no Stream
\* exactly for the stream objects with a missing name, cycleTime, frameSize,
\* sender or receiver, an unknown sender or receiver, or a priority outside
\* 0..7; Topology.from_json then raises the same error and returns no topology;
\* otherwise absent offset, transmissionWindow and priority are 0
C13_StreamErrors ==
    FileRead =>
        LET objects == document.streams
            bad == {k \in 1..Len(objects) : Rejected(objects[k])}
            first == CHOOSE k \in bad : \A j \in bad : k <= j
        IN  /\ \A k \in 1..Len(objects) :
                   /\ Stream_from_json(objects[k], DocumentNodes).error.raised <=> k \in bad
                   /\ k \in bad => DOMAIN Stream_from_json(objects[k], DocumentNodes).value = {}
            /\ bad # {} =>
                   /\ pc = "failed"
                   /\ raised = Stream_from_json(objects[first], DocumentNodes).error
                   /\ DOMAIN nodes = {} /\ DOMAIN ports = {} /\ DOMAIN edges = {} /\ Len(streams) = 0
            /\ bad = {} =>
                   /\ pc = "parsed"
                   /\ ~raised.raised
                   /\ Len(streams) = Len(objects)
                   /\ \A k \in 1..Len(objects) :
                          /\ ~Has(objects[k], "offset") => streams[k].offset = 0
                          /\ ~Has(objects[k], "transmissionWindow") => streams[k].transmission_window = 0
                          /\ ~Has(objects[k], "priority") => streams[k].priority = 0

\* a file whose second stream object has a priority of 8 was refused, and so
\* reported for that stream
C13_SecondStreamRefused ==
    /\ FileRead
    /\ pc = "failed"
    /\ Len(document.streams) = 2
    /\ ~Rejected(document.streams[1])
    /\ ~Has(document.streams[1], "offset")
    /\ document.streams[2].priority = 8
    /\ raised.message[1] = "Invalid priority \""

-----------------------------------------------------------------------------
(* Properties of the passes *)

\* C14: whatever the order of the stream list, the same number of full passes
\* (calculate_delays, recalculate_bandwidth) leaves the same per-port
\* statistics, multiplication factors and bandwidth table
C14_OrderIrrelevant ==
    (earlier # NoEarlier /\ passes = earlier.passes) =>
        /\ stream_statistics = earlier.stats
        /\ saved_multiplications = earlier.saved
        /\ bandwidth_per_stream_and_node = earlier.table

\* two interfering streams went through a full pass in both orders
C14_BothOrders ==
    /\ earlier # NoEarlier
    /\ passes = earlier.passes
    /\ streams # earlier.streams
    /\ bandwidth_per_stream_and_node # <<>>
    /\ \E n \in DOMAIN delays : \E i \in 1..Len(delays[n].hops) :
           delays[n].hops[i].interfering_streams # <<>>

\* C15: from an empty bandwidth table, the recalculate_bandwidth() of a third
\* full pass changes no entry of the table
C15_FixedPoint ==
    [][(pc = "reinflate" /\ Len(passes) >= 5)
          => bandwidth_per_stream_and_node' = bandwidth_per_stream_and_node]_vars

-----------------------------------------------------------------------------
(* Properties of the interference sets and of the transmission durations *)

\* the names of the streams of a list
Names(list) == {list[k].name : k \in 1..Len(list)}

\* the tx ports of the path of stream n, as path indices
TxPorts(n) == {i \in 1..Len(stream_paths[n]) : is_tx_port(stream_paths[n][i], stream_paths[n])}

\* the streams s' # s whose path contains port p and whose priority passes the
\* rule of the express priorities E of p
Selected(s, p) ==
    {t \in Names(streams) :
        /\ t # s.name
        /\ InPath(p, stream_paths[t])
        /\ IF s.priority \in ports[p].express_priorities
           THEN /\ StreamNamed(t).priority >= s.priority
                /\ StreamNamed(t).priority \in ports[p].express_priorities
           ELSE \/ StreamNamed(t).priority \in ports[p].express_priorities
                \/ StreamNamed(t).priority >= s.priority}

Narrowed(s, p) ==
    LET by_priority == {t \in Selected(s, p) : StreamNamed(t).priority >= s.priority}
        by_express == IF ports[p].frame_preemption /\ ports[p].express_priorities # {}
                      THEN {t \in by_priority :
                               StreamNamed(t).priority \in ports[p].express_priorities}
                      ELSE by_priority
    IN  IF ports[p].gcl /\ ports[p].gcl_priorities # {}
        THEN {t \in by_express : StreamNamed(t).priority \in ports[p].gcl_priorities}
        ELSE by_express

\* the sum over the streams named of T(B(s', p) + 20, L) + jtx
RECURSIVE InterferenceOf(_, _, _)
InterferenceOf(names, p, edge) ==
    IF names = {} THEN 0
    ELSE LET t == CHOOSE t \in names : TRUE
         IN  get_transmission_duration(
                 get_bandwidth(bandwidth_per_stream_and_node, StreamNamed(t), p) + 20,
                 edge.link_speed)
             + edge.transmission_jitter
             + InterferenceOf(names \ {t}, p, edge)

C18_OwnDuration ==
    pc = "reinflate" =>
        \A n \in DOMAIN delays : \A i \in TxPorts(n) :
            delays[n].hops[i].d_trans
                = get_transmission_duration(
                      get_bandwidth(bandwidth_per_stream_and_node, StreamNamed(n),
                                    stream_paths[n][i]) + 20,
                      LinkSpeedAt(n, i))

\* the tx statistic of the forwarding node that owns the port at path index i
OwnTxStatistic(n, i) ==
    CHOOSE k \in 1..Len(stream_statistics[n]) :
        /\ stream_statistics[n][k].node_name = stream_paths[n][i][1]
        /\ stream_statistics[n][k].direction = "tx"

\* worst case minus best case, summed over the statistics up to and including
\* the tx statistic of the forwarding node that owns the port at path index i
ArrivalWindow(n, i) ==
    Sum([k \in 1..OwnTxStatistic(n, i) |->
            stream_statistics[n][k].worst_case - stream_statistics[n][k].best_case])

\* what the first recalculate_bandwidth() has to leave in the table for stream n
\* at the tx port at path index i: B(A) * ceil(d_arriv / cycle_B) * ceil(cycle_B
\* / cycle_A) if that raises the frame size, A the tx port before (the frame size
\* and the cycle time of the stream at the first port)
RECURSIVE ReinflatedBandwidth(_, _)
ReinflatedBandwidth(n, i) ==
    LET before == {j \in TxPorts(n) : j < i}
        a == CHOOSE j \in before : \A h \in before : h <= j
        cycle_b == ports[stream_paths[n][i]].gcl_cycle
        cycle_a == IF before = {} THEN StreamNamed(n).cycletime
                   ELSE ports[stream_paths[n][a]].gcl_cycle
        bandwidth_a == IF before = {} THEN StreamNamed(n).framesize
                       ELSE ReinflatedBandwidth(n, a)
    IN  Max(StreamNamed(n).framesize,
            bandwidth_a * Ceil(ArrivalWindow(n, i), cycle_b) * Ceil(cycle_b, cycle_a))

\* C19: the reinflator takes d_arriv at a tx port from the statistics up to and
\* including the tx statistic of the forwarding node of the port, not from those
\* further downstream, and sets B(stream, A) * ceil(d_arriv / cycle_B) *
\* ceil(cycle_B / cycle_A): the table after the first recalculate_bandwidth()
C19_ArrivalUpToPort ==
    [][(pc = "reinflate" /\ bandwidth_per_stream_and_node = <<>>) =>
          \A n \in DOMAIN delays : \A i \in TxPorts(n) :
              get_bandwidth(bandwidth_per_stream_and_node', StreamNamed(n), stream_paths[n][i])
                  = ReinflatedBandwidth(n, i)]_vars

\* the product of the multiplication factors of the path indices 1..i
RECURSIVE FactorUpTo(_, _)
FactorUpTo(n, i) ==
    IF i = 0 THEN FracOfInt(1)
    ELSE FracMul(FactorUpTo(n, i - 1), saved_multiplications[n][i])

\* (sum over the interfering streams of T(B(s', p) + 20, L) + jtx
\*  + T(B(s, p) + 20, L) * F) / window at the tx port at path index i
OccupancyAt(n, i) ==
    LET p == stream_paths[n][i]
        edge == get_edge_data(p, stream_paths[n][i + 1])
        own == get_transmission_duration(
                   get_bandwidth(bandwidth_per_stream_and_node, StreamNamed(n), p) + 20,
                   edge.link_speed)
        window == IF ports[p].gcl THEN ports[p].gcl_open ELSE StreamNamed(n).cycletime
    IN  FracDivInt(FracAdd(FracOfInt(InterferenceOf(Selected(StreamNamed(n), p), p, edge)),
                           FracMul(FracOfInt(own), FactorUpTo(n, i))),
                   window)

\* C20: the occupancy stored for a tx port of the estimated stream is the sum of
\* the interfering streams' T(B + 20, L) + jtx plus the own T(B + 20, L) times
\* the product of all multiplication factors up to the port, factors below 1
\* included, divided by the gate open window or the cycle time of the stream
C20_Occupancy ==
    utilization.called =>
        \A i \in TxPorts(streams[1].name) :
            stream_statistics[streams[1].name][
                get_port_statistics(stream_statistics[streams[1].name],
                                    stream_paths[streams[1].name][i])].resource_utilization
                = OccupancyAt(streams[1].name, i)

-----------------------------------------------------------------------------
(* Properties of the hops of a path *)

\* the hop of stream n at path index i is a tx port that has been processed
TxHop(n, i) == Propagated(n) /\ i \in TxPorts(n)

\* no gate-enabled tx port of the path of n lies strictly between i and j
NoGateBetween(n, i, j) ==
    \A k \in TxPorts(n) : (i < k /\ k < j) => ~ports[stream_paths[n][k]].gcl

\* C21: once a tx hop of a path was processed under Regime D, the next
\* gate-enabled tx port of the path is processed under Regime B and every SP/FP
\* tx port before it under Regime D, whatever the sync domains and the
\* processing delays of the nodes in between.
C21_UndefinedUpstream ==
    \A n \in DOMAIN delays : \A i, j \in 1..Len(stream_paths[n]) :
        (TxHop(n, i) /\ TxHop(n, j) /\ i < j /\ delays[n].hops[i].regime = "D"
            /\ NoGateBetween(n, i, j))
        => delays[n].hops[j].regime
           = (IF ports[stream_paths[n][j]].gcl THEN "B" ELSE "D")

\* C22: after every hop the newest entry of the best trace and of the worst
\* trace has w_end >= w_start (a window whose end fell before its start is
\* collapsed to (w_start, w_start)).
C22_WindowOrdered ==
    \A n \in DOMAIN delays : Propagated(n) =>
        \A k \in 2..Len(delays[n].best_case) :
            /\ delays[n].best_case[k].w_end >= delays[n].best_case[k].w_start
            /\ delays[n].worst_case[k].w_end >= delays[n].worst_case[k].w_start

\* entry k of the traces of stream n was appended at a forwarding node that is
\* no endpoint (the cumulative fields of an endpoint are restored afterwards)
ForwardingEntry(n, k) ==
    LET node == delays[n].best_case[k].node
    IN  is_forwarding_node(node) /\ ~ContainsTalker(node) /\ ~ContainsListener(node)

\* entry new is entry old with d added to each of the four time fields
Advanced(new, old, d) ==
    /\ new.w_start = old.w_start + d
    /\ new.w_end = old.w_end + d
    /\ new.cum_start = old.cum_start + d
    /\ new.cum_end = old.cum_end + d

\* C23: at a forwarding-node hop each of the four time fields of the new best
\* entry is the field of the previous best entry plus dproc - jproc, and each
\* of the four time fields of the new worst entry is the field of the previous
\* worst entry plus dproc + jproc, also when the previous cum_start and cum_end
\* differ.
C23_ProcessingDelay ==
    \A n \in DOMAIN delays : Propagated(n) =>
        \A k \in 2..Len(delays[n].best_case) : ForwardingEntry(n, k) =>
            LET node_data == nodes[delays[n].best_case[k].node[1]]
            IN  /\ Advanced(delays[n].best_case[k], delays[n].best_case[k - 1],
                            node_data.processing_delay - node_data.processing_jitter)
                /\ Advanced(delays[n].worst_case[k], delays[n].worst_case[k - 1],
                            node_data.processing_delay + node_data.processing_jitter)

\* the entry of the traces of stream n appended at path index i
EntryAt(n, i) ==
    CHOOSE k \in 2..Len(delays[n].worst_case) : delays[n].worst_case[k].node = stream_paths[n][i]

\* the tx hops of stream n processed under the given regime
HopsUnder(n, regime) == {i \in TxPorts(n) : delays[n].hops[i].regime = regime}

\* the row of the worst-case table of Regime A that the hop of stream n at path
\* index i matches first
WorstRow(n, i) ==
    LET p == ports[stream_paths[n][i]]
        h == delays[n].hops[i]
        w == delays[n].worst_case[EntryAt(n, i) - 1]
        late1 == (p.gcl_offset + p.gcl_open) - (w.w_start % p.gcl_cycle)
        late2 == (p.gcl_offset + p.gcl_open) - (w.w_end % p.gcl_cycle)
        early1 == p.gcl_offset - (w.w_start % p.gcl_cycle)
        early2 == p.gcl_offset - (w.w_end % p.gcl_cycle)
        tmp == h.d_trans + h.d_blck + h.d_interference
    IN  IF late1 < tmp /\ late2 < tmp THEN 1
        ELSE IF late2 < tmp THEN 2
        ELSE IF early2 >= 0 THEN 3
        ELSE IF early1 >= 0 THEN 4
        ELSE 5

\* the worst-case gate waits <<d_gate_1, d_gate_2>> of that row
WorstWaits(n, i, row) ==
    LET p == ports[stream_paths[n][i]]
        h == delays[n].hops[i]
        w == delays[n].worst_case[EntryAt(n, i) - 1]
        gc == p.gcl_cycle
        gw == p.gcl_open
    IN  CASE row = 1 -> <<gc - (w.w_start % gc) + gw, gc - (w.w_end % gc) + gw>>
          [] row = 2 -> <<0, (gc - gw) + h.d_trans
                             + (h.d_interference \div Max(1, Len(h.interfering_streams)))
                             + Max(0, gc - h.prev_cycle)>>
          [] row = 3 -> <<p.gcl_offset - (w.w_start % gc), p.gcl_offset - (w.w_end % gc)>>
          [] row = 4 -> <<p.gcl_offset - (w.w_start % gc), 0>>
          [] OTHER -> <<0, 0>>

\* C24: in Regime A the worst-case gate waits are those of the first matching
\* row of the table (late1 < tmp and late2 < tmp; late2 < tmp; early2 >= 0;
\* early1 >= 0; otherwise), both worst cumulative fields advance by d_gate +
\* d_trans + d_blck + d_interference + sync_jitter + max(0, gc - prev_cycle),
\* and the cycle of the entry becomes gc; an in-window arrival with
\* gc <= prev_cycle adds only d_trans + d_blck + d_interference + sync_jitter.
C24_WorstGate ==
    \A n \in DOMAIN delays : Propagated(n) =>
        \A i \in HopsUnder(n, "A") :
            LET p == ports[stream_paths[n][i]]
                h == delays[n].hops[i]
                k == EntryAt(n, i)
                w == delays[n].worst_case[k - 1]
                new == delays[n].worst_case[k]
                d_gate == WorstWaits(n, i, WorstRow(n, i))
                rest == h.d_trans + h.d_blck + h.d_interference
                        + nodes[stream_paths[n][i][1]].sync_jitter
                        + Max(0, p.gcl_cycle - h.prev_cycle)
            IN  /\ new.cum_start = w.cum_start + d_gate[1] + rest
                /\ new.cum_end = w.cum_end + d_gate[2] + rest
                /\ new.cycle = p.gcl_cycle
                /\ (WorstRow(n, i) = 5 /\ p.gcl_cycle <= h.prev_cycle) =>
                       /\ new.cum_start - w.cum_start
                              = h.d_trans + h.d_blck + h.d_interference
                                + nodes[stream_paths[n][i][1]].sync_jitter
                       /\ new.cum_end - w.cum_end = new.cum_start - w.cum_start

\* a stream misses the gate with the end of its window only (second row) at
\* one hop, and a stream arrives within the open gate (last row) at a gate
\* whose cycle is not longer than the upstream cycle
C24_MissedAndInWindow ==
    /\ \E n \in DOMAIN delays :
          Propagated(n) /\ \E i \in HopsUnder(n, "A") : WorstRow(n, i) = 2
    /\ \E n \in DOMAIN delays :
          /\ Propagated(n)
          /\ \E i \in HopsUnder(n, "A") :
                /\ WorstRow(n, i) = 5
                /\ ports[stream_paths[n][i]].gcl_cycle <= delays[n].hops[i].prev_cycle
                /\ delays[n].hops[i].d_interference > 0

\* the stream n misses the gate at path index i in the best case: the best
\* window starts after the gate opening and the open time that remains is
\* shorter than d_trans_bc
BestMissesGate(n, i) ==
    LET p == ports[stream_paths[n][i]]
        edge == get_edge_data(stream_paths[n][i], stream_paths[n][i + 1])
        b == delays[n].best_case[EntryAt(n, i) - 1]
        d_trans_bc == delays[n].hops[i].d_trans - edge.transmission_jitter + edge.propagation_delay
    IN  /\ p.gcl_offset - (b.w_start % p.gcl_cycle) < 0
        /\ (p.gcl_offset + p.gcl_open) - (b.w_start % p.gcl_cycle) < d_trans_bc

\* the gate opening of the gate cycle that follows the one time t lies in
NextOpening(p, t) == t - (t % p.gcl_cycle) + p.gcl_cycle + p.gcl_offset

\* C25: in Regime A, when the stream misses the gate in the best case, the best
\* case rolls to the next cycle: the new best window does not start before the
\* gate opening of the following gate cycle, and the best cumulative delay
\* includes the wait until that opening.
C25_BestRollsOver ==
    \A n \in DOMAIN delays : Propagated(n) =>
        \A i \in HopsUnder(n, "A") : BestMissesGate(n, i) =>
            LET p == ports[stream_paths[n][i]]
                b == delays[n].best_case[EntryAt(n, i) - 1]
                new == delays[n].best_case[EntryAt(n, i)]
            IN  /\ new.w_start >= NextOpening(p, b.w_start)
                /\ new.cum_start - b.cum_start >= NextOpening(p, b.w_start) - b.w_start

\* the excess of the upstream best window of stream n at path index i over the
\* open time of the gate
Exceeding(n, i) ==
    LET b == delays[n].best_case[EntryAt(n, i) - 1]
    IN  (b.w_end - b.w_start) - ports[stream_paths[n][i]].gcl_open

\* C26: in Regime B both traces get the window (go, go + gw); the worst
\* cumulative fields advance by (gc - gw) + d_trans + d_interference/max(1,|I|)
\* + d_dwell and the cycle becomes gc; the best cumulative fields advance by
\* d_trans_bc, cum_end additionally by the excess of the upstream best window
\* over gw when that excess is positive.
C26_UnsynchronizedGate ==
    \A n \in DOMAIN delays : Propagated(n) =>
        \A i \in HopsUnder(n, "B") :
            LET p == ports[stream_paths[n][i]]
                edge == get_edge_data(stream_paths[n][i], stream_paths[n][i + 1])
                h == delays[n].hops[i]
                k == EntryAt(n, i)
                b == delays[n].best_case[k - 1]
                w == delays[n].worst_case[k - 1]
                d_trans_bc == h.d_trans - edge.transmission_jitter + edge.propagation_delay
                d_forward == (p.gcl_cycle - p.gcl_open) + h.d_trans
                             + (h.d_interference \div Max(1, Len(h.interfering_streams)))
                             + h.d_dwell
            IN  /\ delays[n].best_case[k].w_start = p.gcl_offset
                /\ delays[n].best_case[k].w_end = p.gcl_offset + p.gcl_open
                /\ delays[n].worst_case[k].w_start = p.gcl_offset
                /\ delays[n].worst_case[k].w_end = p.gcl_offset + p.gcl_open
                /\ delays[n].worst_case[k].cum_start = w.cum_start + d_forward
                /\ delays[n].worst_case[k].cum_end = w.cum_end + d_forward
                /\ delays[n].worst_case[k].cycle = p.gcl_cycle
                /\ delays[n].best_case[k].cum_start = b.cum_start + d_trans_bc
                /\ delays[n].best_case[k].cum_end
                       = b.cum_end + d_trans_bc + Max(0, Exceeding(n, i))

\* a gate that is in the domain of its ancestor but reached with an undefined
\* window wider than its open time, with interference
C26_UndefinedWindow ==
    \E n \in DOMAIN delays :
        /\ Propagated(n)
        /\ \E i \in HopsUnder(n, "B") :
              /\ delays[n].hops[i].is_synchronized
              /\ Exceeding(n, i) > 0
              /\ delays[n].hops[i].d_interference > 0

\* the cycle of the nearest tx-port entry of the worst trace of stream n before
\* path index i, stream.cycletime when there is none
UpstreamCycle(n, i) ==
    LET before == {j \in TxPorts(n) : j < i}
    IN  IF before = {} THEN StreamNamed(n).cycletime
        ELSE delays[n].worst_case[EntryAt(n, CHOOSE j \in before : \A m \in before : m <= j)].cycle

\* C27: the cycle of every tx-port entry of the worst trace is the gcl_cycle of
\* the port if its gate is enabled and otherwise the cycle of the nearest
\* preceding tx-port entry (stream.cycletime when there is none); the previous
\* cycle read at a tx hop, for the interference scaling, the dwell and the
\* multiplication factor, is that upstream value and never the placeholder
\* cycle of the forwarding-node entry in between (the interference is compared
\* while the bandwidth table is the one the pass has read).
C27_CycleCarried ==
    \A n \in DOMAIN delays : Propagated(n) =>
        \A i \in TxPorts(n) :
            LET p == ports[stream_paths[n][i]]
                edge == get_edge_data(stream_paths[n][i], stream_paths[n][i + 1])
                h == delays[n].hops[i]
                up == UpstreamCycle(n, i)
            IN  /\ delays[n].worst_case[EntryAt(n, i)].cycle
                       = (IF p.gcl THEN p.gcl_cycle ELSE up)
                /\ h.prev_cycle = up
                /\ pc = "reinflate" =>
                       h.d_interference
                       = (IF ContainsTalker(stream_paths[n][i]) THEN 0
                          ELSE InterferenceOf(Narrowed(StreamNamed(n), stream_paths[n][i]),
                                              stream_paths[n][i], edge))
                         * Ceil(up, StreamNamed(n).cycletime)
                /\ h.d_dwell = h.d_trans + edge.transmission_jitter + edge.propagation_delay
                               + h.d_blck + Max(0, up - p.gcl_cycle)
                /\ delays[n].multiplication[i]
                       = (IF p.gcl THEN Frac(p.gcl_cycle, Max(1, up)) ELSE FracOfInt(1))

\* a stream passes a gate whose cycle is twice its own cycle time and then an
\* SP port, where it interferes with another stream
C27_LongerCycleCarried ==
    \E n \in DOMAIN delays :
        /\ Propagated(n)
        /\ \E i \in TxPorts(n) :
              /\ ~ports[stream_paths[n][i]].gcl
              /\ UpstreamCycle(n, i) = 2 * StreamNamed(n).cycletime
              /\ delays[n].hops[i].d_interference > 0

-----------------------------------------------------------------------------
(* Properties of two topologies that differ in attributes of disabled
   mechanisms, and of a repeated propagation *)

\* a second Calculator has run the passes of the first one
SamePasses == earlier # NoEarlier /\ passes = earlier.passes

\* the topology differs from the earlier one in gcl_cycle, gcl_open and
\* gcl_offset of gate-disabled ports only
DiffersInDisabledGates ==
    \A q \in PortNames :
        /\ ports[q] = [earlier.ports[q] EXCEPT !.gcl_cycle = ports[q].gcl_cycle,
                                               !.gcl_open = ports[q].gcl_open,
                                               !.gcl_offset = ports[q].gcl_offset]
        /\ ports[q] # earlier.ports[q] => ~ports[q].gcl

\* C28: two topologies that differ only in gcl_cycle, gcl_open and gcl_offset
\* of gate-disabled ports yield the same per-port delays, bandwidth tables and
\* utilizations for every stream.
C28_DisabledGateIgnored ==
    (SamePasses /\ DiffersInDisabledGates) =>
        /\ stream_statistics = earlier.stats
        /\ bandwidth_per_stream_and_node = earlier.table
        /\ utilization = earlier.utilization

\* C29: calculate_delays() run twice in succession, with no reinflation in
\* between, leaves every per-port best_case and worst_case, the traces and
\* every stream's list of multiplication factors as the first run produced
\* them.
C29_Idempotent ==
    [][(pc = "reinflate" /\ passes' = Append(passes, "propagate"))
       => /\ stream_statistics' = stream_statistics
          /\ saved_multiplications' = saved_multiplications
          /\ delays' = delays
          /\ bandwidth_per_stream_and_node' = bandwidth_per_stream_and_node]_vars

\* calculate_delays() was run twice in succession on a reinflated bandwidth
\* table, for two streams that interfere
C29_RepeatedOnReinflated ==
    /\ passes = <<"propagate", "reinflate", "propagate", "propagate">>
    /\ bandwidth_per_stream_and_node # <<>>
    /\ \E n \in DOMAIN delays : \E i \in TxPorts(n) : delays[n].hops[i].d_interference > 0

\* the topology differs from the earlier one in express_priorities of ports
\* with frame preemption disabled only
DiffersInDisabledExpress ==
    \A q \in PortNames :
        /\ ports[q] = [earlier.ports[q] EXCEPT !.express_priorities = ports[q].express_priorities]
        /\ ports[q] # earlier.ports[q] => ~ports[q].frame_preemption

\* the names of the interfering streams, the blocking delay and the utilization
\* of every hop of every stream
HopFacts(d) ==
    [n \in DOMAIN d |-> [i \in 1..Len(d[n].hops) |->
        <<d[n].hops[i].interfering_streams, d[n].hops[i].d_blck>>]]

\* C30: two topologies that differ only in express_priorities of ports with
\* frame preemption disabled yield the same interfering sets, blocking delays,
\* per-port delays and utilizations for every stream.
C30_DisabledExpressIgnored ==
    (SamePasses /\ DiffersInDisabledExpress) =>
        /\ HopFacts(delays) = HopFacts(earlier.delays)
        /\ stream_statistics = earlier.stats
        /\ utilization = earlier.utilization

====
